---- MODULE Spec2Model ----
(***************************************************************************)
(* Model of the MQTT ingestor service: the control-plane client with its   *)
(* retry loop and circuit breaker (MQT.IngestorService/client), the        *)
(* ingestion pipeline (MQT.IngestorService/ingestor), the process with its *)
(* health endpoint (MQT.IngestorService/main.go) and the authentication of *)
(* the routes the client calls (MQT.ApiService).                           *)
(* Time is counted in seconds.                                             *)
(***************************************************************************)
EXTENDS Integers, Sequences, FiniteSets, TLC

\* ------------------------------------------------------------------------
\* Bounds of the model
\* ------------------------------------------------------------------------
\* how far the clock runs when the client is driven alone
MaxTime == 40

TickSteps == {1, 30}

\* how far the clock runs when the whole service is running
MaxRunTime == 2

\* ------------------------------------------------------------------------
\* Program constants (NewAPIClient)
\* ------------------------------------------------------------------------
maxFailures == 5

resetTimeout == 30

maxRetries == 3

retryDelay == 1

StatusOK == 200

StatusCreated == 201

StatusInternalServerError == 500

\* status 0 stands for a transport error: httpClient.Do returned an error
TransportError == 0

VARIABLES
    now,              \* wall clock
    circuitBreaker,   \* [state, failureCount, lastFailTime]
    call,             \* the control-plane call in progress (one caller)
    ctxDone,          \* the context passed to the call has been cancelled
    lastResp,         \* the response retryWithBackoff is acting on, if any
    consecFails,      \* history: failed attempts since the last success
    lastFailureAt,    \* history: time of the latest failed attempt (-1: none)
    startStatus,      \* "new", "running" or "failed": outcome of Start
    mqttClient,       \* "nil" or "set": the i.mqttClient field
    connected,        \* mqttClient.IsConnected()
    disconnectCalled, \* Disconnect was called: the library reconnects no more
    msgCh,            \* the buffered channel i.msgCh
    chClosed,         \* close(i.msgCh) has run
    blocked,          \* the Telemetry of the onMessage callbacks suspended
                      \* in i.msgCh <- reading, in the order they came
    panicked,         \* a goroutine panicked: the process is gone
    stopPc,           \* position of Stop(): "none", "waiting", "returned"
    bwPc,             \* position of the batchWriter goroutine
    batch,            \* batchWriter's batch slice
    flushIdx,         \* index of the item the running flush works on
    flushFrom,        \* the select case that called the running flush
    item,             \* history: calls and diagnostics of the item in work
    timerActive,      \* the batch timer is armed and has not fired
    timerDeadline,    \* when the armed timer fires
    timerC,           \* a value waits in timer.C
    lastDone,         \* history: summary of the message whose handling
                      \* ended in the latest step, NoSummary otherwise
    msgCount,         \* history: number of messages delivered so far
    cfgBatchSize,     \* i.cfg.BatchSize
    health,           \* the latest answer of GET /health, NoHealth before
    apiSecret,        \* c.apiSecret of the API client
    controlPlane,     \* the API service behind /internal: its secret, its
                      \* stored readings and its latest exchange
    spawned           \* the messages whose callback goroutine was started
                      \* and has not run yet

clientVars == <<now, circuitBreaker, call, ctxDone, lastResp, consecFails,
                lastFailureAt>>

sessionVars == <<startStatus, mqttClient, connected, disconnectCalled>>

chanVars == <<msgCh, chClosed, blocked>>

writerVars == <<bwPc, batch, flushIdx, flushFrom, item>>

timerVars == <<timerActive, timerDeadline, timerC>>

sideVars == <<health, apiSecret, controlPlane, spawned>>

pipeVars == <<sessionVars, chanVars, panicked, stopPc, writerVars, timerVars,
              msgCount, cfgBatchSize, sideVars>>

vars == <<clientVars, pipeVars, lastDone>>

\* what became of one message: the control-plane calls made for it and the
\* diagnostics handed to mqttClient.Publish for it
Summary(topic, body, enqueued, calls, diags) ==
    [topic |-> topic, body |-> body, enqueued |-> enqueued, calls |-> calls,
     diags |-> diags]

NoSummary == Summary(<<>>, "", FALSE, <<>>, <<>>)

\* no message ends its way in this step
NoneDone == lastDone' = NoSummary

\* ------------------------------------------------------------------------
\* HTTP responses of the control plane, as the client sees them
\* ------------------------------------------------------------------------
Resp(status, decodes, flag, error) ==
    [status |-> status, decodes |-> decodes, flag |-> flag, error |-> error]

NoResp == Resp(-1, FALSE, FALSE, FALSE)

Responses ==
    { Resp(TransportError, FALSE, FALSE, FALSE),
      Resp(StatusInternalServerError, TRUE, FALSE, TRUE),
      Resp(StatusCreated, TRUE, TRUE, FALSE),
      Resp(StatusOK, FALSE, FALSE, FALSE),
      Resp(StatusOK, TRUE, TRUE, FALSE),
      Resp(StatusOK, TRUE, FALSE, FALSE),
      Resp(StatusOK, TRUE, FALSE, TRUE),
      Resp(StatusOK, TRUE, TRUE, TRUE) }

\* the responses met while the whole service runs
ServiceResponses ==
    { Resp(TransportError, FALSE, FALSE, FALSE),
      Resp(StatusInternalServerError, TRUE, FALSE, TRUE),
      Resp(StatusCreated, TRUE, TRUE, FALSE),
      Resp(StatusOK, TRUE, TRUE, FALSE),
      Resp(StatusOK, TRUE, FALSE, FALSE) }

OpResult(err, exists) == [err |-> err, exists |-> exists]

\* variant: the body is decoded whatever the status
ValidatePiOperation_AnyStatus(r) ==
    IF r.status = TransportError THEN OpResult(TRUE, FALSE)
    ELSE IF ~r.decodes THEN OpResult(TRUE, FALSE)
    ELSE IF r.error THEN OpResult(TRUE, FALSE)
    ELSE OpResult(FALSE, r.flag)

\* the closure ValidatePi hands to retryWithBackoff
ValidatePiOperation(r) ==
    IF r.status = TransportError THEN OpResult(TRUE, FALSE)
    ELSE IF r.status # StatusOK THEN OpResult(TRUE, FALSE)
    ELSE IF ~r.decodes THEN OpResult(TRUE, FALSE)
    ELSE IF r.error THEN OpResult(TRUE, FALSE)
    ELSE OpResult(FALSE, r.flag)

\* variant: a device that was not found is an error of the operation
ValidateDeviceOperation_NotFoundFails(r) ==
    IF r.status = TransportError THEN OpResult(TRUE, FALSE)
    ELSE IF r.status # StatusOK THEN OpResult(TRUE, FALSE)
    ELSE IF ~r.decodes THEN OpResult(TRUE, FALSE)
    ELSE IF r.error \/ ~r.flag THEN OpResult(TRUE, FALSE)
    ELSE OpResult(FALSE, r.flag)

\* the closure ValidateDevice hands to retryWithBackoff
ValidateDeviceOperation(r) ==
    IF r.status = TransportError THEN OpResult(TRUE, FALSE)
    ELSE IF r.status # StatusOK THEN OpResult(TRUE, FALSE)
    ELSE IF ~r.decodes THEN OpResult(TRUE, FALSE)
    ELSE IF r.error THEN OpResult(TRUE, FALSE)
    ELSE OpResult(FALSE, r.flag)

\* the closure CreateReading hands to retryWithBackoff
CreateReadingOperation(r) ==
    IF r.status = TransportError THEN OpResult(TRUE, FALSE)
    ELSE IF r.status # StatusCreated /\ r.status # StatusOK
         THEN OpResult(TRUE, FALSE)
    ELSE IF ~r.decodes THEN OpResult(TRUE, FALSE)
    ELSE IF ~r.flag /\ r.error THEN OpResult(TRUE, FALSE)
    ELSE OpResult(FALSE, FALSE)

Operations == {"ValidatePi", "ValidateDevice", "CreateReading"}

Operation(op, r) ==
    CASE op = "ValidatePi" -> ValidatePiOperation(r)
      [] op = "ValidateDevice" -> ValidateDeviceOperation(r)
      [] OTHER -> CreateReadingOperation(r)

\* ------------------------------------------------------------------------
\* CircuitBreaker
\* ------------------------------------------------------------------------
NewCircuitBreaker ==
    [state |-> "closed", failureCount |-> 0, lastFailTime |-> 0]

\* variant: a breaker that never rejects
canExecute_AlwaysTrue(cb, t) == TRUE

canExecute(cb, t) ==
    CASE cb.state = "closed" -> TRUE
      [] cb.state = "open" -> (t - cb.lastFailTime) > resetTimeout
      [] cb.state = "half-open" -> TRUE
      [] OTHER -> FALSE

\* variant: a success that leaves the counter alone
onSuccess_KeepCount(cb) == [cb EXCEPT !.state = "closed"]

onSuccess(cb) == [cb EXCEPT !.failureCount = 0, !.state = "closed"]

\* variant: a failure in state open does not restart the window
onFailure_StaleTime(cb, t) ==
    LET n == cb.failureCount + 1
    IN [cb EXCEPT !.failureCount = n,
                  !.lastFailTime =
                      IF cb.state = "open" THEN cb.lastFailTime ELSE t,
                  !.state = IF n >= maxFailures THEN "open" ELSE cb.state]

onFailure(cb, t) ==
    LET n == cb.failureCount + 1
    IN [cb EXCEPT !.failureCount = n,
                  !.lastFailTime = t,
                  !.state = IF n >= maxFailures THEN "open" ELSE cb.state]

\* defined by the client but called from nowhere in the repository
onHalfOpen(cb) == [cb EXCEPT !.state = "half-open"]

\* ------------------------------------------------------------------------
\* retryWithBackoff, one step per blocking point
\* ------------------------------------------------------------------------
\* variant: the exponent starts at one
Backoff_OffByOne(attempt) == retryDelay * (2 ^ (attempt + 1))

\* delay := retryDelay * math.Pow(2, attempt)
Backoff(attempt) == retryDelay * (2 ^ attempt)

NoArg == [PiID |-> <<>>]

IdleCall ==
    [op |-> "none", arg |-> NoArg, pc |-> "idle", attempt |-> 0,
     waitStart |-> 0, result |-> "none", exists |-> FALSE, reqs |-> 0,
     delays |-> <<>>]

\* entry of retryWithBackoff: attempt := 0
BeginCall(op, arg) ==
    [IdleCall EXCEPT !.op = op, !.arg = arg, !.pc = "check"]

\* top of the loop: the breaker check, then the request leaves
Attempt ==
    /\ call.pc = "check"
    /\ ~panicked
    /\ IF ~canExecute(circuitBreaker, now)
       THEN call' = [call EXCEPT !.pc = "returned", !.result = "breaker_open"]
       ELSE call' = [call EXCEPT !.pc = "inflight", !.reqs = @ + 1]
    /\ NoneDone
    /\ UNCHANGED <<now, circuitBreaker, ctxDone, lastResp, consecFails,
                   lastFailureAt, pipeVars>>

\* operation() returns r: onSuccess / onFailure and the decision to retry
Returns(r) ==
    /\ call.pc = "inflight"
    /\ ~panicked
    /\ ctxDone => r.status = TransportError
    /\ lastResp' = r
    /\ LET res == Operation(call.op, r)
       IN IF ~res.err
          THEN /\ circuitBreaker' = onSuccess(circuitBreaker)
               /\ call' = [call EXCEPT !.pc = "returned", !.result = "ok",
                                       !.exists = res.exists]
               /\ consecFails' = 0
               /\ UNCHANGED lastFailureAt
          ELSE /\ circuitBreaker' = onFailure(circuitBreaker, now)
               /\ consecFails' = consecFails + 1
               /\ lastFailureAt' = now
               /\ IF call.attempt = maxRetries
                  THEN call' = [call EXCEPT !.pc = "returned",
                                            !.result = "exhausted"]
                  ELSE call' = [call EXCEPT
                                   !.pc = "wait",
                                   !.waitStart = now,
                                   !.delays = Append(@, Backoff(call.attempt))]
    /\ NoneDone
    /\ UNCHANGED <<now, ctxDone>>

\* operation() returns with an answer that the environment chooses
Response(r) ==
    /\ Returns(r)
    /\ UNCHANGED pipeVars

Max(a, b) == IF a >= b THEN a ELSE b

\* case <-time.After(delay): continue with the next attempt. The step
\* stands for the whole wait: the clock is at least delay past its start.
BackoffElapsed ==
    /\ call.pc = "wait"
    /\ ~panicked
    /\ now' = Max(now, call.waitStart + call.delays[Len(call.delays)])
    /\ now' <= MaxTime
    /\ call' = [call EXCEPT !.pc = "check", !.attempt = @ + 1]
    /\ lastResp' = NoResp
    /\ NoneDone
    /\ UNCHANGED <<circuitBreaker, ctxDone, consecFails, lastFailureAt,
                   pipeVars>>

\* case <-ctx.Done(): return ctx.Err()
BackoffCancelled ==
    /\ call.pc = "wait"
    /\ ~panicked
    /\ ctxDone
    /\ call' = [call EXCEPT !.pc = "returned", !.result = "cancelled"]
    /\ lastResp' = NoResp
    /\ NoneDone
    /\ UNCHANGED <<now, circuitBreaker, ctxDone, consecFails, lastFailureAt,
                   pipeVars>>

\* ------------------------------------------------------------------------
\* Environment
\* ------------------------------------------------------------------------
Tick(d, limit) ==
    /\ ~panicked
    /\ now + d <= limit
    /\ now' = now + d
    /\ NoneDone
    /\ UNCHANGED <<circuitBreaker, call, ctxDone, lastResp, consecFails,
                   lastFailureAt, pipeVars>>

Cancel ==
    /\ ~ctxDone
    /\ ~panicked
    /\ ctxDone' = TRUE
    /\ NoneDone
    /\ UNCHANGED <<now, circuitBreaker, call, lastResp, consecFails,
                   lastFailureAt, pipeVars>>

\* a caller of the client's API: ValidatePi, ValidateDevice, CreateReading
ClientCall(op) ==
    /\ bwPc = "notStarted"
    /\ call.pc \in {"idle", "returned"}
    /\ call' = BeginCall(op, NoArg)
    /\ lastResp' = NoResp
    /\ NoneDone
    /\ UNCHANGED <<now, circuitBreaker, ctxDone, consecFails, lastFailureAt,
                   pipeVars>>

\* ------------------------------------------------------------------------
\* Bounds and configuration of the pipeline
\* ------------------------------------------------------------------------
\* number of messages the broker delivers in a run of Spec
MaxMsgs == 1

\* number of messages the broker delivers in a run of SpecBatch
MaxBatchMsgs == 2

\* capacity of i.msgCh (4096 in New), scaled down
MsgChCap == 1

\* cfg.BatchSize (BATCH_SIZE, default 200), scaled down
BatchSize == 2

\* cfg.BatchWindow (BATCH_WINDOW, default 1s)
BatchWindow == 1

\* ------------------------------------------------------------------------
\* Topics and bodies. A topic is a sequence of characters; "s" abbreviates
\* the word "sensors" and "i" the word "invalid". Which topics reach
\* onMessage depends on the subscription cfg.Topic (MQTT_TOPIC, default
\* "sensors/#"); the handler itself is modelled for any delivered topic.
\* ------------------------------------------------------------------------
Topics ==
    { <<"s", "/", "p", "/", "4", "2", "/", "t">>,
      <<"s", "/", "p", "/", "-", "7", "/", "t", "/", "u">>,
      <<"s", "/", "p", "/", "x", "/", "t">>,
      <<"s", "/", "p", "/", "5">>,
      <<"s">>,
      <<"i", "/", "t", "/", "w", "/", "e">>,
      <<"s", "/", "p", "/", "5", "/">> }

Bodies == {"{\"v\":1}", "", "no json", "null", "[1]"}

Msg(topic, body) == [topic |-> topic, body |-> body]

GoodTopic == <<"s", "/", "p", "/", "4", "2", "/", "t">>

\* the messages the broker delivers: every topic with a JSON object as
\* body, and the first topic with every body
Messages ==
    { Msg(t, "{\"v\":1}") : t \in Topics }
        \cup { Msg(GoodTopic, b) : b \in Bodies }

\* the messages of SpecBatch: a well-formed one and one whose device id is
\* no integer
BatchMessages ==
    { Msg(GoodTopic, "{\"v\":1}"),
      Msg(<<"s", "/", "p", "/", "x", "/", "t">>, "{\"v\":1}") }

RECURSIVE SplitAcc(_, _, _)
SplitAcc(s, cur, acc) ==
    IF s = <<>> THEN Append(acc, cur)
    ELSE IF Head(s) = "/" THEN SplitAcc(Tail(s), <<>>, Append(acc, cur))
    ELSE SplitAcc(Tail(s), Append(cur, Head(s)), acc)

\* strings.Split(topic, "/")
Split(s) == SplitAcc(s, <<>>, <<>>)

Digits == {"0", "1", "2", "3", "4", "5", "6", "7", "8", "9"}

DigitVal(c) ==
    CASE c = "0" -> 0 [] c = "1" -> 1 [] c = "2" -> 2 [] c = "3" -> 3
      [] c = "4" -> 4 [] c = "5" -> 5 [] c = "6" -> 6 [] c = "7" -> 7
      [] c = "8" -> 8 [] OTHER -> 9

RECURSIVE DecimalValue(_)
DecimalValue(s) ==
    IF s = <<>> THEN 0
    ELSE 10 * DecimalValue(SubSeq(s, 1, Len(s) - 1)) + DigitVal(s[Len(s)])

\* strconv.Atoi, for values within the range of int
Atoi(s) ==
    LET signed == s # <<>> /\ Head(s) \in {"+", "-"}
        digits == IF signed THEN Tail(s) ELSE s
    IN IF digits = <<>> \/ \E k \in 1..Len(digits) : digits[k] \notin Digits
       THEN [err |-> TRUE, val |-> 0]
       ELSE [err |-> FALSE,
             val |-> IF signed /\ Head(s) = "-"
                     THEN 0 - DecimalValue(digits)
                     ELSE DecimalValue(digits)]

\* a value of type map[string]interface{}: the nil map, or a map with its
\* key/value pairs
NilMap == [isNil |-> TRUE, entries |-> {}]

Map(entries) == [isNil |-> FALSE, entries |-> entries]

\* json.Unmarshal(m.Payload(), &payload) with payload a nil map: the JSON
\* text null is accepted and leaves the map as it is
jsonUnmarshal(b) ==
    CASE b = "{\"v\":1}" -> [err |-> FALSE, payload |-> Map({<<"v", "1">>})]
      [] b = "{}" -> [err |-> FALSE, payload |-> Map({})]
      [] b = "null" -> [err |-> FALSE, payload |-> NilMap]
      [] OTHER -> [err |-> TRUE, payload |-> NilMap]

\* lines 109-112 of onMessage
DecodePayload(b) ==
    IF jsonUnmarshal(b).err
    THEN Map({<<"raw", b>>})
    ELSE jsonUnmarshal(b).payload

Unknown == <<"u", "n", "k", "n", "o", "w", "n">>

\* fmt.Sprintf("ingestor/errors/%s/%s", piID, deviceID)
ErrorTopic(piID, deviceID) ==
    [prefix |-> "ingestor/errors", pi |-> piID, dev |-> deviceID]

Diagnostic(piID, deviceID, errorType) ==
    [topic |-> ErrorTopic(piID, deviceID), error_type |-> errorType,
     pi_id |-> piID, device_id |-> deviceID, qos |-> 1, retained |-> FALSE]

\* variant: the diagnostic is published whatever the state of the session
publishError_IgnoreSession(piID, deviceID, errorType) ==
    <<Diagnostic(piID, deviceID, errorType)>>

\* publishError: the diagnostics it hands to Publish, none when the session
\* is not connected
publishError(piID, deviceID, errorType) ==
    IF mqttClient = "nil" \/ ~connected
    THEN <<>>
    ELSE <<Diagnostic(piID, deviceID, errorType)>>

EmptyItem == [calls |-> <<>>, diags |-> <<>>]

\* variant: the timer is set to twice the window
TimerReset_Double(t) == t + 2 * BatchWindow

\* time.NewTimer(i.cfg.BatchWindow), timer.Reset(i.cfg.BatchWindow): the
\* deadline of a timer set at time t
TimerReset(t) == t + BatchWindow

\* ------------------------------------------------------------------------
\* Broker session: Start, Stop, connection loss and reconnect
\* ------------------------------------------------------------------------
StartOutcomes == {"ok", "tls_error", "connect_error"}

Start(outcome) ==
    /\ startStatus = "new"
    /\ ~panicked
    /\ CASE outcome = "tls_error" ->
              /\ startStatus' = "failed"
              /\ UNCHANGED <<mqttClient, connected, bwPc, timerVars>>
         [] outcome = "connect_error" ->
              /\ startStatus' = "failed"
              /\ mqttClient' = "set"
              /\ UNCHANGED <<connected, bwPc, timerVars>>
         [] OTHER ->
              /\ startStatus' = "running"
              /\ mqttClient' = "set"
              /\ connected' = TRUE
              /\ bwPc' = "select"
              /\ timerActive' = TRUE
              /\ timerDeadline' = TimerReset(now)
              /\ UNCHANGED timerC
    /\ NoneDone
    /\ UNCHANGED <<clientVars, disconnectCalled, chanVars, panicked, stopPc,
                   batch, flushIdx, flushFrom, item, msgCount,
                   cfgBatchSize, sideVars>>

\* opts.OnConnectionLost: the library reconnects by itself
ConnectionLost ==
    /\ connected
    /\ ~panicked
    /\ connected' = FALSE
    /\ NoneDone
    /\ UNCHANGED <<clientVars, startStatus, mqttClient, disconnectCalled,
                   chanVars, panicked, stopPc, writerVars, timerVars, msgCount,
                   cfgBatchSize, sideVars>>

\* SetAutoReconnect(true): opts.OnConnect subscribes again
Reconnect ==
    /\ startStatus = "running"
    /\ ~connected
    /\ ~disconnectCalled
    /\ ~panicked
    /\ connected' = TRUE
    /\ NoneDone
    /\ UNCHANGED <<clientVars, startStatus, mqttClient, disconnectCalled,
                   chanVars, panicked, stopPc, writerVars, timerVars, msgCount,
                   cfgBatchSize, sideVars>>

\* Stop up to wg.Wait(): Disconnect when connected, then close(i.msgCh)
Stop ==
    /\ startStatus # "new"
    /\ stopPc \in {"none", "returned"}
    /\ ~panicked
    /\ IF mqttClient # "nil" /\ connected
       THEN connected' = FALSE /\ disconnectCalled' = TRUE
       ELSE UNCHANGED <<connected, disconnectCalled>>
    /\ chClosed' = TRUE
    /\ panicked' = (chClosed \/ blocked # <<>>)
    /\ stopPc' = "waiting"
    /\ NoneDone
    /\ UNCHANGED <<clientVars, startStatus, mqttClient, msgCh, blocked,
                   writerVars, timerVars, msgCount,
                   cfgBatchSize, sideVars>>

\* wg.Wait() returns
StopReturn ==
    /\ stopPc = "waiting"
    /\ ~panicked
    /\ bwPc \in {"notStarted", "exited"}
    /\ stopPc' = "returned"
    /\ NoneDone
    /\ UNCHANGED <<clientVars, sessionVars, chanVars, panicked, writerVars,
                   timerVars, msgCount,
                   cfgBatchSize, sideVars>>

\* ------------------------------------------------------------------------
\* onMessage: the broker callback (its own goroutine per message, since
\* SetOrderMatters(false))
\* ------------------------------------------------------------------------
\* variant: the gateway id taken from the prefix segment
piIDOf_FirstSegment(parts) == parts[1]

\* piID := parts[1] (Go counts from 0)
piIDOf(parts) == parts[2]

\* deviceID := parts[2]
deviceIDOf(parts) == parts[3]

NewReading(topic, body, parts, t, seq) ==
    [PiID |-> piIDOf(parts), DeviceID |-> deviceIDOf(parts), Topic |-> topic,
     Payload |-> DecodePayload(body), ReceivedAt |-> t,
     body |-> body, id |-> seq]

\* the callback, run for the message the broker delivered as number seq
HandleMessage(topic, body, seq) ==
    /\ ~panicked
    /\ LET parts == Split(topic)
       IN IF Len(parts) < 4
          THEN LET piID == IF Len(parts) >= 2 THEN parts[2] ELSE Unknown
                   deviceID == IF Len(parts) >= 3 THEN parts[3] ELSE Unknown
                   diags == publishError(piID, deviceID, "invalid_topic")
               IN /\ lastDone' = Summary(topic, body, FALSE, <<>>, diags)
                  /\ UNCHANGED <<chanVars, panicked>>
          ELSE LET reading == NewReading(topic, body, parts, now, seq)
               IN /\ NoneDone
                  /\ IF chClosed
                     THEN panicked' = TRUE /\ UNCHANGED chanVars
                     ELSE IF Len(msgCh) < MsgChCap
                     THEN /\ msgCh' = Append(msgCh, reading)
                          /\ UNCHANGED <<chClosed, blocked, panicked>>
                     ELSE /\ blocked' = Append(blocked, reading)
                          /\ UNCHANGED <<msgCh, chClosed, panicked>>
    /\ UNCHANGED <<clientVars, sessionVars, stopPc, writerVars, timerVars,
                   cfgBatchSize, health, apiSecret, controlPlane>>

\* the broker delivers a message and its callback runs at once
onMessage(topic, body) ==
    /\ startStatus = "running"
    /\ connected
    /\ msgCount' = msgCount + 1
    /\ HandleMessage(topic, body, msgCount + 1)
    /\ UNCHANGED spawned

\* the broker delivers a message: the library starts the callback in a
\* goroutine of its own
Dispatch(topic, body) ==
    /\ startStatus = "running"
    /\ connected
    /\ ~panicked
    /\ msgCount' = msgCount + 1
    /\ spawned' = spawned \cup {[topic |-> topic, body |-> body,
                                 seq |-> msgCount + 1]}
    /\ NoneDone
    /\ UNCHANGED <<clientVars, sessionVars, chanVars, panicked, stopPc,
                   writerVars, timerVars, cfgBatchSize, health, apiSecret,
                   controlPlane>>

\* one of the started callbacks runs, whichever the scheduler picks
RunCallback ==
    \E m \in spawned :
       /\ HandleMessage(m.topic, m.body, m.seq)
       /\ spawned' = spawned \ {m}
       /\ UNCHANGED msgCount

\* ------------------------------------------------------------------------
\* batchWriter: the select loop
\* ------------------------------------------------------------------------
BeginFlush(from) ==
    /\ bwPc' = "flush"
    /\ flushIdx' = 1
    /\ flushFrom' = from

\* case <-ctx.Done(): flush(); return
BwCtxDone ==
    /\ bwPc = "select"
    /\ ~panicked
    /\ ctxDone
    /\ BeginFlush("ctx")
    /\ NoneDone
    /\ UNCHANGED <<clientVars, sessionVars, chanVars, panicked, stopPc,
                   batch, item, timerVars, msgCount,
                   cfgBatchSize, sideVars>>

\* variant: the flush waits for one Telemetry more
BatchFull_Greater(n) == n > cfgBatchSize

\* len(batch) >= i.cfg.BatchSize
BatchFull(n) == n >= cfgBatchSize

\* case rd, ok := <-i.msgCh with ok: append, flush when the batch is full.
\* A receive from a full channel hands the freed slot to the sender that
\* has been suspended longest.
BwReceive ==
    /\ bwPc = "select"
    /\ ~panicked
    /\ msgCh # <<>>
    /\ IF blocked # <<>>
       THEN /\ msgCh' = Append(Tail(msgCh), Head(blocked))
            /\ blocked' = Tail(blocked)
       ELSE /\ msgCh' = Tail(msgCh)
            /\ UNCHANGED blocked
    /\ batch' = Append(batch, Head(msgCh))
    /\ IF BatchFull(Len(batch) + 1)
       THEN BeginFlush("size")
       ELSE UNCHANGED <<bwPc, flushIdx, flushFrom>>
    /\ NoneDone
    /\ UNCHANGED <<clientVars, sessionVars, chClosed, panicked, stopPc, item,
                   timerVars, msgCount, cfgBatchSize, sideVars>>

\* case rd, ok := <-i.msgCh with !ok: flush(); return
BwClosed ==
    /\ bwPc = "select"
    /\ ~panicked
    /\ msgCh = <<>>
    /\ chClosed
    /\ BeginFlush("closed")
    /\ NoneDone
    /\ UNCHANGED <<clientVars, sessionVars, chanVars, panicked, stopPc,
                   batch, item, timerVars, msgCount,
                   cfgBatchSize, sideVars>>

\* case <-timer.C: flush(); timer.Reset
BwTimer ==
    /\ bwPc = "select"
    /\ ~panicked
    /\ timerC
    /\ timerC' = FALSE
    /\ BeginFlush("timer")
    /\ NoneDone
    /\ UNCHANGED <<clientVars, sessionVars, chanVars, panicked, stopPc,
                   batch, item, timerActive, timerDeadline, msgCount,
                   cfgBatchSize, sideVars>>

\* the runtime fires the timer
TimerFire ==
    /\ timerActive
    /\ ~panicked
    /\ now >= timerDeadline
    /\ timerActive' = FALSE
    /\ timerC' = TRUE
    /\ NoneDone
    /\ UNCHANGED <<clientVars, sessionVars, chanVars, panicked, stopPc,
                   writerVars, timerDeadline, msgCount,
                   cfgBatchSize, sideVars>>

\* ------------------------------------------------------------------------
\* flush: one step per item up to its first control-plane call, one step
\* per returning call, one step for the end of the loop
\* ------------------------------------------------------------------------
CallEntry(c) ==
    [op |-> c.op, result |-> c.result, exists |-> c.exists, reqs |-> c.reqs]

\* variant: the timestamp taken at flush time
ReadingTs_Now(rd, t) == t

\* Ts: readingWithTopic.ReceivedAt
ReadingTs(rd, t) == rd.ReceivedAt

\* hardware_models.Reading built from the item
ReadingOf(rd, deviceIDInt, t) ==
    [PiID |-> rd.PiID, DeviceID |-> deviceIDInt, Ts |-> ReadingTs(rd, t),
     Payload |-> rd.Payload]

\* variant: an item that ended with a diagnostic ends the flush
FinishItem_AbortOnFailure(rd, calls, diags) ==
    /\ lastDone' = Summary(rd.Topic, rd.body, TRUE, calls, diags)
    /\ flushIdx' = IF diags # <<>> THEN Len(batch) + 1 ELSE flushIdx + 1
    /\ item' = EmptyItem
    /\ call' = IdleCall

\* continue, or the end of the loop body: on to the next item
FinishItem(rd, calls, diags) ==
    /\ lastDone' = Summary(rd.Topic, rd.body, TRUE, calls, diags)
    /\ flushIdx' = flushIdx + 1
    /\ item' = EmptyItem
    /\ call' = IdleCall

Skip(errorType) == [do |-> "skip", what |-> errorType]

Proceed(op) == [do |-> "call", what |-> op]

ItemDone == [do |-> "done", what |-> ""]

\* variant: a gateway that was not found is validated further
AfterCall_PiNotFoundProceeds(op, result, exists) ==
    CASE op = "ValidatePi" ->
           IF result # "ok" THEN Skip("pi_validation_error")
           ELSE Proceed("ValidateDevice")
      [] op = "ValidateDevice" ->
           IF result # "ok" THEN Skip("device_validation_error")
           ELSE IF ~exists THEN Skip("device_not_found")
           ELSE Proceed("CreateReading")
      [] OTHER ->
           IF result # "ok" THEN Skip("create_reading_error") ELSE ItemDone

\* variant: a device that was not found gets its reading inserted
AfterCall_DeviceNotFoundProceeds(op, result, exists) ==
    CASE op = "ValidatePi" ->
           IF result # "ok" THEN Skip("pi_validation_error")
           ELSE IF ~exists THEN Skip("pi_not_found")
           ELSE Proceed("ValidateDevice")
      [] op = "ValidateDevice" ->
           IF result # "ok" THEN Skip("device_validation_error")
           ELSE Proceed("CreateReading")
      [] OTHER ->
           IF result # "ok" THEN Skip("create_reading_error") ELSE ItemDone

\* variant: a device that was not found is reported as a validation error
AfterCall_OneDeviceTag(op, result, exists) ==
    CASE op = "ValidatePi" ->
           IF result # "ok" THEN Skip("pi_validation_error")
           ELSE IF ~exists THEN Skip("pi_not_found")
           ELSE Proceed("ValidateDevice")
      [] op = "ValidateDevice" ->
           IF result # "ok" \/ ~exists THEN Skip("device_validation_error")
           ELSE Proceed("CreateReading")
      [] OTHER ->
           IF result # "ok" THEN Skip("create_reading_error") ELSE ItemDone

\* what flush does with the result of a call: publishError and continue,
\* the next call, or the end of the loop body
AfterCall(op, result, exists) ==
    CASE op = "ValidatePi" ->
           IF result # "ok" THEN Skip("pi_validation_error")
           ELSE IF ~exists THEN Skip("pi_not_found")
           ELSE Proceed("ValidateDevice")
      [] op = "ValidateDevice" ->
           IF result # "ok" THEN Skip("device_validation_error")
           ELSE IF ~exists THEN Skip("device_not_found")
           ELSE Proceed("CreateReading")
      [] OTHER ->
           IF result # "ok" THEN Skip("create_reading_error") ELSE ItemDone

\* strconv.Atoi, then ValidatePi is called
FlushItem ==
    /\ bwPc = "flush"
    /\ ~panicked
    /\ call.pc = "idle"
    /\ flushIdx <= Len(batch)
    /\ LET rd == batch[flushIdx]
       IN IF Atoi(rd.DeviceID).err
          THEN FinishItem(rd, <<>>, <<>>)
          ELSE /\ call' = BeginCall("ValidatePi", [PiID |-> rd.PiID])
               /\ item' = EmptyItem
               /\ NoneDone
               /\ UNCHANGED flushIdx
    /\ lastResp' = NoResp
    /\ UNCHANGED <<now, circuitBreaker, ctxDone, consecFails, lastFailureAt,
                   sessionVars, chanVars, panicked, stopPc, bwPc, batch,
                   flushFrom, timerVars, msgCount,
                   cfgBatchSize, sideVars>>

\* a control-plane call returns to flush
FlushReturn ==
    /\ bwPc = "flush"
    /\ ~panicked
    /\ call.pc = "returned"
    /\ LET rd == batch[flushIdx]
           calls == Append(item.calls, CallEntry(call))
           dev == Atoi(rd.DeviceID).val
           next == AfterCall(call.op, call.result, call.exists)
           arg == IF next.what = "ValidateDevice"
                  THEN [PiID |-> rd.PiID, DeviceID |-> dev]
                  ELSE ReadingOf(rd, dev, now)
       IN CASE next.do = "skip" ->
                 FinishItem(rd, calls,
                            publishError(rd.PiID, rd.DeviceID, next.what))
            [] next.do = "call" ->
                 /\ call' = BeginCall(next.what, arg)
                 /\ item' = [item EXCEPT !.calls = calls]
                 /\ NoneDone
                 /\ UNCHANGED flushIdx
            [] OTHER -> FinishItem(rd, calls, <<>>)
    /\ lastResp' = NoResp
    /\ UNCHANGED <<now, circuitBreaker, ctxDone, consecFails, lastFailureAt,
                   sessionVars, chanVars, panicked, stopPc, bwPc, batch,
                   flushFrom, timerVars, msgCount,
                   cfgBatchSize, sideVars>>

\* the loop over the batch is over: batch = batch[:0], and what the caller
\* of flush does next
FlushDone ==
    /\ bwPc = "flush"
    /\ ~panicked
    /\ call.pc = "idle"
    /\ flushIdx > Len(batch)
    /\ batch' = <<>>
    /\ flushIdx' = 1
    /\ CASE flushFrom \in {"ctx", "closed"} ->
              /\ bwPc' = "exited"
              /\ UNCHANGED timerVars
         [] flushFrom = "timer" ->
              /\ bwPc' = "select"
              /\ timerActive' = TRUE
              /\ timerDeadline' = TimerReset(now)
              /\ UNCHANGED timerC
         [] OTHER ->
              \* if !timer.Stop() { <-timer.C }; timer.Reset
              IF timerActive \/ timerC
              THEN /\ bwPc' = "select"
                   /\ timerActive' = TRUE
                   /\ timerDeadline' = TimerReset(now)
                   /\ timerC' = FALSE
              ELSE /\ bwPc' = "drainTimer"
                   /\ UNCHANGED timerVars
    /\ NoneDone
    /\ UNCHANGED <<clientVars, sessionVars, chanVars, panicked, stopPc,
                   flushFrom, item, msgCount,
                   cfgBatchSize, sideVars>>

\* ------------------------------------------------------------------------
\* The health endpoint of the ingestor (main.go, startHealthServer)
\* ------------------------------------------------------------------------
StatusServiceUnavailable == 503

\* what the liveness probe of the API service may come back with
ProbeStatuses == {TransportError, StatusOK, StatusInternalServerError}

\* field probe is history: the status the liveness probe came back with
HealthResponse(code, status, mqtt, api, state, failures, probe) ==
    [code |-> code, status |-> status, mqtt |-> mqtt, api_service |-> api,
     state |-> state, failure_count |-> failures, probe |-> probe]

NoHealth == HealthResponse(0, "", "", "", "", 0, -1)

\* Ingestor.IsConnected
IsConnected == mqttClient # "nil" /\ connected

\* APIClient.Health: GET /health/live, an error unless the status is 200
HealthErr(probe) ==
    IF probe = TransportError THEN TRUE ELSE probe # StatusOK

\* APIClient.GetCircuitBreakerStatus, the two fields the handler prints
GetCircuitBreakerStatus(cb) ==
    [state |-> CASE cb.state = "closed" -> "closed"
                 [] cb.state = "open" -> "open"
                 [] cb.state = "half-open" -> "half-open"
                 [] OTHER -> "unknown",
     failure_count |-> cb.failureCount]

\* variant: the status follows the API service alone
OverallStatus_ApiOnly(mqttStatus, apiStatus) ==
    IF apiStatus # "connected" THEN "unhealthy" ELSE "healthy"

\* status := "healthy" unless one of the two is not connected
OverallStatus(mqttStatus, apiStatus) ==
    IF mqttStatus # "connected" \/ apiStatus # "connected"
    THEN "unhealthy"
    ELSE "healthy"

\* variant: the liveness probe is sent only when the breaker lets it pass
HealthHandler_BehindBreaker(isConnected, probe, cb) ==
    LET mqttStatus == IF isConnected THEN "connected" ELSE "disconnected"
        apiStatus == IF canExecute(cb, now) /\ ~HealthErr(probe)
                     THEN "connected"
                     ELSE "disconnected"
        status == OverallStatus(mqttStatus, apiStatus)
        code == IF status = "healthy" THEN StatusOK
                ELSE StatusServiceUnavailable
        cbStatus == GetCircuitBreakerStatus(cb)
    IN HealthResponse(code, status, mqttStatus, apiStatus, cbStatus.state,
                      cbStatus.failure_count, probe)

\* the handler of GET /health
HealthHandler(isConnected, probe, cb) ==
    LET mqttStatus == IF isConnected THEN "connected" ELSE "disconnected"
        apiStatus == IF ~HealthErr(probe) THEN "connected"
                     ELSE "disconnected"
        status == OverallStatus(mqttStatus, apiStatus)
        code == IF status = "healthy" THEN StatusOK
                ELSE StatusServiceUnavailable
        cbStatus == GetCircuitBreakerStatus(cb)
    IN HealthResponse(code, status, mqttStatus, apiStatus, cbStatus.state,
                      cbStatus.failure_count, probe)

\* go startHealthServer(...) after Start has succeeded: ListenAndServe
\* returns on no path of the program, the server listens until the process
\* ends
HealthListening == startStatus = "running" /\ ~panicked

\* GET /health is served; main returns, and the process ends, when Stop
\* has returned
HealthRequest(probe) ==
    /\ HealthListening
    /\ stopPc # "returned"
    /\ health' = HealthHandler(IsConnected, probe, circuitBreaker)
    /\ NoneDone
    /\ UNCHANGED <<clientVars, sessionVars, chanVars, panicked, stopPc,
                   writerVars, timerVars, msgCount, cfgBatchSize, apiSecret,
                   controlPlane, spawned>>

\* ------------------------------------------------------------------------
\* Service authentication between the API client and the API service.
\* Header values and secrets are sequences of characters.
\* ------------------------------------------------------------------------
StatusBadRequest == 400

StatusUnauthorized == 401

Bearer == <<"B", "e", "a", "r", "e", "r", " ">>

\* the secrets a deployment may configure, the empty one included
Secrets == {<<>>, <<"k">>, <<"x">>}

\* the Authorization headers that reach the API service: none, the scheme
\* alone, the scheme with a token, other schemes
AuthHeaders ==
    { <<>>,
      Bearer,
      <<"B", "e", "a", "r", "e", "r">>,
      Bearer \o <<"k">>,
      Bearer \o <<"x">>,
      <<"b", "e", "a", "r", "e", "r", " ", "k">>,
      <<"B", "a", "s", "i", "c", " ", "k">> }

InternalPaths ==
    {"/internal/pis/validate", "/internal/devices/validate",
     "/internal/readings"}

\* the device ids of the readings a request to /internal/readings may carry
ReadingIds == {1, 2}

\* the requests to /internal/readings that others than the ingestor send
ForeignReadings ==
    {[PiID |-> <<"4", "2">>, DeviceID |-> d, Ts |-> 0, Payload |-> Map({})] :
        d \in ReadingIds}

\* strings.HasPrefix
HasPrefix(s, prefix) ==
    Len(s) >= Len(prefix) /\ SubSeq(s, 1, Len(prefix)) = prefix

\* strings.TrimPrefix
TrimPrefix(s, prefix) ==
    IF HasPrefix(s, prefix) THEN SubSeq(s, Len(prefix) + 1, Len(s)) ELSE s

\* req.Header.Set("Authorization", "Bearer "+c.apiSecret)
AuthorizationOf(secret) == Bearer \o secret

Abort(status) == [aborted |-> TRUE, status |-> status]

\* c.Next()
PassOn == [aborted |-> FALSE, status |-> 0]

\* variant: any bearer token is let through
ServiceAuthMiddleware_AnyToken(authHeader, expectedSecret) ==
    IF authHeader = <<>> THEN Abort(StatusUnauthorized)
    ELSE IF ~HasPrefix(authHeader, Bearer) THEN Abort(StatusUnauthorized)
    ELSE IF TrimPrefix(authHeader, Bearer) = <<>>
         THEN Abort(StatusUnauthorized)
    ELSE IF expectedSecret = <<>> THEN Abort(StatusInternalServerError)
    ELSE PassOn

ServiceAuthMiddleware(authHeader, expectedSecret) ==
    IF authHeader = <<>> THEN Abort(StatusUnauthorized)
    ELSE IF ~HasPrefix(authHeader, Bearer) THEN Abort(StatusUnauthorized)
    ELSE IF TrimPrefix(authHeader, Bearer) = <<>>
         THEN Abort(StatusUnauthorized)
    ELSE IF expectedSecret = <<>> THEN Abort(StatusInternalServerError)
    ELSE IF TrimPrefix(authHeader, Bearer) # expectedSecret
         THEN Abort(StatusUnauthorized)
    ELSE PassOn

\* a row of table readings, built from the request. Field rewritten is
\* history: a later INSERT met the key of the row
Row(rd) ==
    [pi_id |-> rd.PiID, device_id |-> rd.DeviceID, ts |-> rd.Ts,
     payload |-> rd.Payload, rewritten |-> FALSE]

\* PRIMARY KEY (pi_id, device_id, ts)
SameKey(a, b) ==
    a.pi_id = b.pi_id /\ a.device_id = b.device_id /\ a.ts = b.ts

\* variant: an INSERT without the ON CONFLICT clause, into a table without
\* the primary key
InsertReading_NoConflictClause(rows, rd) == Append(rows, Row(rd))

\* PostgresReadingRepository.CreateReading: INSERT INTO readings ... ON
\* CONFLICT (pi_id, device_id, ts) DO UPDATE SET payload = EXCLUDED.payload
InsertReading(rows, rd) ==
    IF \E k \in 1..Len(rows) : SameKey(rows[k], Row(rd))
    THEN [k \in 1..Len(rows) |->
             IF SameKey(rows[k], Row(rd))
             THEN [rows[k] EXCEPT !.payload = rd.Payload,
                                  !.rewritten = TRUE]
             ELSE rows[k]]
    ELSE Append(rows, Row(rd))

\* the handlers of the group /internal: the status they answer with and
\* the readings stored afterwards. bound: ShouldBindJSON accepted the body;
\* repoErr: the reading repository returned an error
InternalHandler(path, rd, bound, repoErr, readings) ==
    IF ~bound THEN [status |-> StatusBadRequest, readings |-> readings]
    ELSE IF path # "/internal/readings"
         THEN [status |-> StatusOK, readings |-> readings]
    ELSE IF repoErr
         THEN [status |-> StatusInternalServerError, readings |-> readings]
    ELSE [status |-> StatusCreated, readings |-> InsertReading(readings, rd)]

Exchange(from, header, path, status, handled) ==
    [from |-> from, header |-> header, path |-> path, status |-> status,
     handled |-> handled]

NoExchange == Exchange("", <<>>, "", 0, FALSE)

\* the API service with INTERNAL_API_SECRET = secret and no reading stored
NewControlPlane(secret) ==
    [expectedSecret |-> secret, readings |-> <<>>, last |-> NoExchange]

\* the API service after a request to a route of the group /internal: the
\* middleware, then the handler of the route unless the middleware aborted
Served(cp, from, header, path, rd, bound, repoErr) ==
    LET mw == ServiceAuthMiddleware(header, cp.expectedSecret)
        h == InternalHandler(path, rd, bound, repoErr, cp.readings)
    IN IF mw.aborted
       THEN [cp EXCEPT
                !.last = Exchange(from, header, path, mw.status, FALSE)]
       ELSE [cp EXCEPT
                !.readings = h.readings,
                !.last = Exchange(from, header, path, h.status, TRUE)]

\* a request to a route of the group /internal is served
InternalRequest(from, header, path, rd, bound, repoErr) ==
    /\ controlPlane' =
          Served(controlPlane, from, header, path, rd, bound, repoErr)
    /\ NoneDone
    /\ UNCHANGED <<clientVars, sessionVars, chanVars, panicked, stopPc,
                   writerVars, timerVars, msgCount, cfgBatchSize, health,
                   apiSecret, spawned>>

\* ShouldBindJSON(&req) of CreateReading: each field of the request is
\* tagged binding:"required"
BindsReading(rd) == rd.PiID # <<>> /\ rd.DeviceID # 0 /\ ~rd.Payload.isNil

\* the answer of a handler of /internal as the client reads it
RespOf(status) ==
    IF status \in {StatusOK, StatusCreated}
    THEN Resp(status, TRUE, TRUE, FALSE)
    ELSE Resp(status, TRUE, FALSE, TRUE)

\* POST /internal/readings of the call in flight: the request reaches the
\* API service or does not, and the answer reaches the client or is lost
\* (the connection breaks, the client times out), which the client sees
\* as an error of httpClient.Do
CreateReadingExchange(reaches, repoErr, answerLost) ==
    /\ call.op = "CreateReading"
    /\ LET cp == IF reaches
                 THEN Served(controlPlane, "client",
                             AuthorizationOf(apiSecret), "/internal/readings",
                             call.arg, BindsReading(call.arg), repoErr)
                 ELSE controlPlane
           r == IF reaches /\ ~answerLost
                THEN RespOf(cp.last.status)
                ELSE Resp(TransportError, FALSE, FALSE, FALSE)
       IN /\ Returns(r)
          /\ controlPlane' = cp
    /\ UNCHANGED <<sessionVars, chanVars, panicked, stopPc, writerVars,
                   timerVars, msgCount, cfgBatchSize, health, apiSecret,
                   spawned>>

\* makeRequest of the API client
ClientRequest(path, rd, bound, repoErr) ==
    InternalRequest("client", AuthorizationOf(apiSecret), path, rd, bound,
                    repoErr)

\* a request of any other sender
ForeignRequest(header, path, rd, bound, repoErr) ==
    InternalRequest("other", header, path, rd, bound, repoErr)

\* ------------------------------------------------------------------------
\* Specifications
\* ------------------------------------------------------------------------
\* the secret of a deployment that configured one
Secret == <<"k">>

InitPipeline(size) ==
    /\ now = 0
    /\ circuitBreaker = NewCircuitBreaker
    /\ call = IdleCall
    /\ ctxDone = FALSE
    /\ lastResp = NoResp
    /\ consecFails = 0
    /\ lastFailureAt = -1
    /\ startStatus = "new"
    /\ mqttClient = "nil"
    /\ connected = FALSE
    /\ disconnectCalled = FALSE
    /\ msgCh = <<>>
    /\ chClosed = FALSE
    /\ blocked = <<>>
    /\ panicked = FALSE
    /\ stopPc = "none"
    /\ bwPc = "notStarted"
    /\ batch = <<>>
    /\ flushIdx = 1
    /\ flushFrom = "none"
    /\ item = EmptyItem
    /\ timerActive = FALSE
    /\ timerDeadline = 0
    /\ timerC = FALSE
    /\ lastDone = NoSummary
    /\ msgCount = 0
    /\ cfgBatchSize = size
    /\ health = NoHealth
    /\ spawned = {}

\* NewAPIClient(config.ApiServiceURL, config.InternalAPISecret) and an API
\* service that holds the same secret
InitWith(size) ==
    /\ InitPipeline(size)
    /\ apiSecret = Secret
    /\ controlPlane = NewControlPlane(Secret)

\* New(cfg, ...) with the batch size of the configuration
Init == InitWith(BatchSize)

\* the client alone, driven through its three operations
NextClient ==
    \/ \E op \in Operations : ClientCall(op)
    \/ Attempt
    \/ \E r \in Responses : Response(r)
    \/ BackoffElapsed
    \/ BackoffCancelled
    \/ \E d \in TickSteps : Tick(d, MaxTime)
    \/ Cancel

SpecClient == Init /\ [][NextClient]_vars

\* the client alone with timers that fire when they are due: the clock
\* advances between the calls and, by the backoff delay, in BackoffElapsed
NextPrompt ==
    \/ \E op \in Operations : ClientCall(op)
    \/ Attempt
    \/ \E r \in Responses : Response(r)
    \/ BackoffElapsed
    \/ BackoffCancelled
    \/ \E d \in TickSteps :
          call.pc \in {"idle", "returned"} /\ Tick(d, MaxTime)
    \/ Cancel

SpecPrompt == Init /\ [][NextPrompt]_vars

\* Apart from the backoff waits, the clock of the running service advances
\* while the batch writer sits in its select with no case ready: steps are
\* short against the unit of time.
Quiescent ==
    /\ startStatus = "running"
    /\ ~(timerActive /\ now >= timerDeadline)
    /\ bwPc # "flush"
    /\ bwPc = "select" =>
          msgCh = <<>> /\ blocked = <<>> /\ ~chClosed /\ ~timerC /\ ~ctxDone

\* the ingestor service, delivered MaxMsgs messages
Next ==
    \/ \E o \in StartOutcomes : Start(o)
    \/ ConnectionLost
    \/ Reconnect
    \/ Stop
    \/ StopReturn
    \/ \E m \in Messages : msgCount < MaxMsgs /\ onMessage(m.topic, m.body)
    \/ BwCtxDone
    \/ BwReceive
    \/ BwClosed
    \/ BwTimer
    \/ TimerFire
    \/ FlushItem
    \/ FlushReturn
    \/ FlushDone
    \/ Attempt
    \/ \E r \in ServiceResponses : Response(r)
    \/ BackoffElapsed
    \/ BackoffCancelled
    \/ Quiescent /\ Tick(1, MaxRunTime)
    \/ Cancel

Spec == Init /\ [][Next]_vars

\* the ingestor service, started and delivered MaxBatchMsgs messages of
\* BatchMessages
NextBatch ==
    \/ Start("ok")
    \/ Stop
    \/ StopReturn
    \/ \E m \in BatchMessages :
          msgCount < MaxBatchMsgs /\ onMessage(m.topic, m.body)
    \/ BwCtxDone
    \/ BwReceive
    \/ BwClosed
    \/ BwTimer
    \/ TimerFire
    \/ FlushItem
    \/ FlushReturn
    \/ FlushDone
    \/ Attempt
    \/ \E r \in ServiceResponses : Response(r)
    \/ BackoffElapsed
    \/ BackoffCancelled
    \/ Quiescent /\ Tick(1, MaxRunTime)
    \/ Cancel

SpecBatch == Init /\ [][NextBatch]_vars

\* number of messages the broker delivers in a run of SpecWindow
MaxWindowMsgs == 2

\* a configuration whose batch size exceeds the number of messages
InitWindow == InitWith(MaxWindowMsgs + 1)

\* an uninterrupted run of the service (no Stop, no cancellation, no
\* connection loss) that is delivered fewer well-formed messages than a
\* batch holds
NextWindow ==
    \/ Start("ok")
    \/ msgCount < MaxWindowMsgs /\ onMessage(GoodTopic, "{\"v\":1}")
    \/ BwReceive
    \/ BwTimer
    \/ TimerFire
    \/ FlushItem
    \/ FlushReturn
    \/ FlushDone
    \/ Attempt
    \/ \E r \in ServiceResponses : Response(r)
    \/ BackoffElapsed
    \/ Quiescent /\ Tick(1, MaxRunTime)

SpecWindow == InitWindow /\ [][NextWindow]_vars

\* number of messages the broker delivers in a run of SpecOutage
MaxOutageMsgs == 3

\* the control plane answers every request with a 5xx status
OutageResponses == {Resp(StatusInternalServerError, TRUE, FALSE, TRUE)}

\* the running service during an outage of the control plane, delivered
\* MaxOutageMsgs well-formed messages
NextOutage ==
    \/ Start("ok")
    \/ msgCount < MaxOutageMsgs /\ onMessage(GoodTopic, "{\"v\":1}")
    \/ BwReceive
    \/ BwTimer
    \/ TimerFire
    \/ FlushItem
    \/ FlushReturn
    \/ FlushDone
    \/ Attempt
    \/ \E r \in OutageResponses : Response(r)
    \/ BackoffElapsed
    \/ Quiescent /\ Tick(1, MaxRunTime)

SpecOutage == Init /\ [][NextOutage]_vars

\* the running service during an outage of the control plane, with the
\* health endpoint queried at any moment
NextProbe ==
    \/ Start("ok")
    \/ msgCount < MaxOutageMsgs /\ onMessage(GoodTopic, "{\"v\":1}")
    \/ BwReceive
    \/ BwTimer
    \/ TimerFire
    \/ FlushItem
    \/ FlushReturn
    \/ FlushDone
    \/ Attempt
    \/ \E r \in OutageResponses : Response(r)
    \/ BackoffElapsed
    \/ Quiescent /\ Tick(1, MaxRunTime)
    \/ \E p \in ProbeStatuses : HealthRequest(p)

SpecProbe == Init /\ [][NextProbe]_vars

\* number of messages the broker delivers in a run of SpecTimer
MaxTimerMsgs == 2

\* the API service answers at once: the entity exists, or it does not
PromptResponses ==
    { Resp(StatusOK, TRUE, TRUE, FALSE),
      Resp(StatusOK, TRUE, FALSE, FALSE) }

\* the steps of the batch writer goroutine
BatchWriterStep ==
    \/ BwReceive
    \/ BwTimer
    \/ FlushItem
    \/ FlushReturn
    \/ FlushDone
    \/ Attempt

\* an uninterrupted run of the service that is delivered as many messages
\* as a batch holds
NextTimer ==
    \/ Start("ok")
    \/ msgCount < MaxTimerMsgs /\ onMessage(GoodTopic, "{\"v\":1}")
    \/ BatchWriterStep
    \/ TimerFire
    \/ \E r \in PromptResponses : Response(r)
    \/ Quiescent /\ Tick(1, MaxRunTime)

\* the goroutine of the batch writer is scheduled, the runtime fires a timer
\* that is due, every request is answered, and time passes
SpecTimer ==
    /\ Init
    /\ [][NextTimer]_vars
    /\ WF_vars(BatchWriterStep)
    /\ WF_vars(TimerFire)
    /\ WF_vars(\E r \in PromptResponses : Response(r))
    /\ WF_vars(Quiescent /\ Tick(1, MaxRunTime))

\* number of messages the broker delivers in a run of SpecStop
MaxStopMsgs == 2

\* the steps of the batch writer goroutine up to its return, with a
\* context that may be cancelled
BatchWriterRun ==
    \/ BatchWriterStep
    \/ BwClosed
    \/ BwCtxDone
    \/ BackoffCancelled

\* the API service answers every request at once; a request whose context
\* was cancelled returns with an error
StopResponses ==
    PromptResponses \cup {Resp(TransportError, FALSE, FALSE, FALSE)}

\* the request in flight returns
RequestReturns ==
    \E r \in StopResponses :
       (r.status = TransportError => ctxDone) /\ Response(r)

\* the service with one call of Stop, at any moment after Start has
\* returned, with or without an error, and with or without a cancellation
\* before it
NextStop ==
    \/ \E o \in StartOutcomes : Start(o)
    \/ ConnectionLost
    \/ Reconnect
    \/ stopPc = "none" /\ Stop
    \/ StopReturn
    \/ msgCount < MaxStopMsgs /\ onMessage(GoodTopic, "{\"v\":1}")
    \/ BatchWriterRun
    \/ TimerFire
    \/ RequestReturns
    \/ Quiescent /\ Tick(1, MaxRunTime)
    \/ Cancel

\* the goroutines of the batch writer and of Stop are scheduled, and every
\* request is answered
SpecStop ==
    /\ Init
    /\ [][NextStop]_vars
    /\ WF_vars(BatchWriterRun)
    /\ WF_vars(StopReturn)
    /\ WF_vars(RequestReturns)

\* number of messages the broker delivers in a run of SpecMain
MaxMainMsgs == 1

\* the process of main.go: Start with context.Background(), which nothing
\* cancels, the health server, and on SIGINT or SIGTERM the return of main,
\* which runs the deferred Stop once
NextMain ==
    \/ \E o \in StartOutcomes : Start(o)
    \/ ConnectionLost
    \/ Reconnect
    \/ startStatus = "running" /\ stopPc = "none" /\ Stop
    \/ StopReturn
    \/ msgCount < MaxMainMsgs /\ onMessage(GoodTopic, "{\"v\":1}")
    \/ BwReceive
    \/ BwClosed
    \/ BwTimer
    \/ TimerFire
    \/ FlushItem
    \/ FlushReturn
    \/ FlushDone
    \/ Attempt
    \/ \E r \in ServiceResponses : Response(r)
    \/ BackoffElapsed
    \/ Quiescent /\ Tick(1, MaxRunTime)
    \/ \E p \in ProbeStatuses : HealthRequest(p)

SpecMain == Init /\ [][NextMain]_vars

\* number of messages the broker delivers in a run of SpecOrder
MaxOrderMsgs == 2

\* the control plane knows every gateway and device and stores every
\* reading
AcceptingResponses ==
    { Resp(StatusOK, TRUE, TRUE, FALSE),
      Resp(StatusCreated, TRUE, TRUE, FALSE) }

\* the running service, delivered MaxOrderMsgs messages of one device,
\* with the callbacks in goroutines of their own
NextOrder ==
    \/ Start("ok")
    \/ msgCount < MaxOrderMsgs /\ Dispatch(GoodTopic, "{\"v\":1}")
    \/ RunCallback
    \/ BwReceive
    \/ BwTimer
    \/ TimerFire
    \/ FlushItem
    \/ FlushReturn
    \/ FlushDone
    \/ Attempt
    \/ \E r \in AcceptingResponses : Response(r)
    \/ BackoffElapsed
    \/ Quiescent /\ Tick(1, MaxRunTime)

SpecOrder == Init /\ [][NextOrder]_vars

\* number of messages the broker delivers in a run of SpecStore
MaxStoreMsgs == 2

\* the running service and the API service behind it: the gateway and the
\* device of the MaxStoreMsgs messages exist, and each POST /internal/readings
\* is served by the handler of the API service
NextStore ==
    \/ Start("ok")
    \/ msgCount < MaxStoreMsgs /\ onMessage(GoodTopic, "{\"v\":1}")
    \/ BwReceive
    \/ BwTimer
    \/ TimerFire
    \/ FlushItem
    \/ FlushReturn
    \/ FlushDone
    \/ Attempt
    \/ \E r \in AcceptingResponses :
          call.op # "CreateReading" /\ Response(r)
    \/ \E reaches, repoErr, answerLost \in BOOLEAN :
          CreateReadingExchange(reaches, repoErr, answerLost)
    \/ BackoffElapsed
    \/ Quiescent /\ Tick(1, MaxRunTime)

SpecStore == Init /\ [][NextStore]_vars

\* a client and an API service, each configured with a secret of its own
InitAuth ==
    /\ InitPipeline(BatchSize)
    /\ apiSecret \in Secrets
    /\ \E secret \in Secrets : controlPlane = NewControlPlane(secret)

\* the routes of the group /internal, called by the client and by others
NextAuth ==
    \/ \E path \in InternalPaths, rd \in ForeignReadings,
          bound, repoErr \in BOOLEAN :
          ClientRequest(path, rd, bound, repoErr)
    \/ \E header \in AuthHeaders, path \in InternalPaths,
          rd \in ForeignReadings, bound, repoErr \in BOOLEAN :
          ForeignRequest(header, path, rd, bound, repoErr)

SpecAuth == InitAuth /\ [][NextAuth]_vars

\* ------------------------------------------------------------------------
\* Properties of the client (specification SpecClient)
\* ------------------------------------------------------------------------
WindowOpen == now - circuitBreaker.lastFailTime < resetTimeout

\* C1: once max_failures consecutive attempts have failed, a call that
\* reaches the breaker while it is open and less than reset_timeout has
\* passed since the last failure returns the breaker-open error at once,
\* sends no request and leaves the breaker as it was.
C1_OpenBreakerRejects ==
    [][(/\ call.pc = "check"
        /\ circuitBreaker.state = "open"
        /\ consecFails >= maxFailures
        /\ WindowOpen
        /\ call' # call)
       => (/\ call'.pc = "returned"
           /\ call'.result = "breaker_open"
           /\ call'.reqs = call.reqs
           /\ circuitBreaker' = circuitBreaker
           /\ now' = now)]_vars

C1_Witness ==
    /\ call.pc = "returned"
    /\ call.result = "breaker_open"
    /\ call.reqs = 0
    /\ circuitBreaker.state = "open"
    /\ consecFails >= maxFailures
    /\ WindowOpen

\* C2: an attempt made while the breaker is open and reset_timeout has
\* elapsed moves the breaker to half_open and lets that one call through.
C2_ElapsedWindowGoesHalfOpen ==
    [][(/\ call.pc = "check"
        /\ circuitBreaker.state = "open"
        /\ ~WindowOpen
        /\ call' # call)
       => (/\ circuitBreaker'.state = "half-open"
           /\ call'.pc = "inflight")]_vars

\* C3: a request leaves an open breaker only when more than reset_timeout
\* has passed since the latest failed attempt (one probe per window); a
\* probe that succeeds closes the breaker with failure_count 0, a probe
\* that fails leaves it open with the window counted from that failure.
C3_SingleProbe ==
    [][/\ (/\ call.pc = "check"
           /\ call'.pc = "inflight"
           /\ circuitBreaker.state = "open")
          => (lastFailureAt >= 0 /\ now - lastFailureAt > resetTimeout)
       /\ (/\ call.pc = "inflight"
           /\ call'.pc # "inflight"
           /\ circuitBreaker.state = "open")
          => IF call'.result = "ok"
             THEN /\ circuitBreaker'.state = "closed"
                  /\ circuitBreaker'.failureCount = 0
             ELSE /\ circuitBreaker'.state = "open"
                  /\ circuitBreaker'.lastFailTime = now
                  /\ lastFailureAt' = now]_vars

\* a probe failed and the next attempt of the same call was turned away
C3_Witness ==
    /\ call.pc = "returned"
    /\ call.result = "breaker_open"
    /\ call.reqs = 1
    /\ circuitBreaker.state = "open"
    /\ circuitBreaker.failureCount > maxFailures

\* the failures the specification names: transport error, non-2xx status,
\* body that does not decode
NamedFailure(r) ==
    r.status = TransportError \/ r.status < 200 \/ r.status > 299 \/ ~r.decodes

\* C4: failure_count is the number of failed attempts since the last
\* success: a failed attempt adds one, a success zeroes it, and the breaker
\* opens, recording the time, exactly when the count reaches max_failures.
C4_FailureCount ==
    [][/\ circuitBreaker'.failureCount = consecFails'
       /\ (call.pc = "inflight" /\ call'.pc # "inflight")
          => /\ NamedFailure(lastResp')
                => circuitBreaker'.failureCount =
                       circuitBreaker.failureCount + 1
             /\ call'.result = "ok" => circuitBreaker'.failureCount = 0
       /\ (circuitBreaker.state # "open" /\ circuitBreaker'.state = "open")
          <=> (/\ circuitBreaker'.failureCount # circuitBreaker.failureCount
               /\ circuitBreaker'.failureCount = maxFailures)
       /\ (circuitBreaker.state # "open" /\ circuitBreaker'.state = "open")
          => circuitBreaker'.lastFailTime = now]_vars

C4_Witness ==
    /\ circuitBreaker.state = "open"
    /\ circuitBreaker.failureCount = maxFailures
    /\ consecFails = maxFailures
    /\ circuitBreaker.lastFailTime = now

FailureTypes ==
    {"pi_validation_error", "device_validation_error", "create_reading_error",
     "gateway_validation_error", "insert_failed"}

\* C6: a cancellation that arrives during a retry wait ends the call with
\* a cancellation error, without a further request, and the outcome is not
\* reported as a validation or insert failure.
C6_CancelIsNoFailure ==
    [][/\ (call.pc = "wait" /\ ctxDone /\ call'.pc = "returned")
          => (call'.result = "cancelled" /\ call'.reqs = call.reqs)
       /\ (/\ bwPc = "flush"
           /\ call.pc = "returned"
           /\ call.result = "cancelled"
           /\ call' # call)
          => \A k \in 1..Len(lastDone'.diags) :
                lastDone'.diags[k].error_type \notin FailureTypes]_vars

\* C7: the push of the broker callback never suspends: no callback waits
\* in the send on a full queue.
C7_PushNeverBlocks == blocked = <<>>

SensorPrefix == <<"s">>

\* -?[0-9]+
IsDecimal(seg) ==
    LET digits == IF seg # <<>> /\ Head(seg) = "-" THEN Tail(seg) ELSE seg
    IN digits # <<>> /\ \A k \in 1..Len(digits) : digits[k] \in Digits

IntOf(seg) ==
    IF Head(seg) = "-" THEN 0 - DecimalValue(Tail(seg)) ELSE DecimalValue(seg)

\* sensors/g/d/m[/...] with g, d, m non-empty and d a decimal integer
WellFormed(topic) ==
    LET parts == Split(topic)
    IN /\ Len(parts) >= 4
       /\ parts[1] = SensorPrefix
       /\ parts[2] # <<>> /\ parts[3] # <<>> /\ parts[4] # <<>>
       /\ IsDecimal(parts[3])

\* the control plane answered every request of the message at once: both
\* entities exist, the insert is accepted
AllAccepted(calls) ==
    \A k \in 1..Len(calls) :
       /\ calls[k].result = "ok"
       /\ calls[k].reqs = 1
       /\ calls[k].op # "CreateReading" => calls[k].exists

NonEmptySegments(topic) ==
    Cardinality({k \in 1..Len(Split(topic)) : Split(topic)[k] # <<>>})

BestEffort(topic, k) ==
    IF Len(Split(topic)) >= k THEN Split(topic)[k] ELSE Unknown

\* C9: a topic with fewer than four non-empty segments leads to no
\* insert_reading and to exactly one invalid_topic diagnostic, addressed
\* with whatever segments exist.
C9_ShortTopicRejected ==
    (lastDone # NoSummary /\ NonEmptySegments(lastDone.topic) < 4)
    => /\ \A k \in 1..Len(lastDone.calls) :
             lastDone.calls[k].op # "CreateReading"
       /\ Len(lastDone.diags) = 1
       /\ lastDone.diags[1].error_type = "invalid_topic"
       /\ lastDone.diags[1].topic =
             ErrorTopic(BestEffort(lastDone.topic, 2),
                        BestEffort(lastDone.topic, 3))

\* C10: every Telemetry in the intake queue comes from a topic of at
\* least four segments that starts with the sensor prefix; a four-segment
\* topic with another prefix is rejected with one invalid_topic diagnostic
\* and no control-plane call.
C10_QueuedTopicsHavePrefix ==
    /\ \A k \in 1..Len(msgCh) :
          /\ Len(Split(msgCh[k].Topic)) >= 4
          /\ Split(msgCh[k].Topic)[1] = SensorPrefix
    /\ (/\ lastDone # NoSummary
        /\ Len(Split(lastDone.topic)) >= 4
        /\ Split(lastDone.topic)[1] # SensorPrefix)
       => /\ ~lastDone.enqueued
          /\ lastDone.calls = <<>>
          /\ Len(lastDone.diags) = 1
          /\ lastDone.diags[1].error_type = "invalid_topic"

\* ------------------------------------------------------------------------
\* Properties of flush
\* ------------------------------------------------------------------------
\* the diagnostic flush addresses to the sender of a queued message
DiagOf(topic, errorType) ==
    Diagnostic(Split(topic)[2], Split(topic)[3], errorType)

\* C11: a queued Telemetry whose device_id_raw is no base-10 integer
\* causes no control-plane call and exactly one device_id_parse_error
\* diagnostic on ingestor/errors/<gateway_id>/<device_id_raw>; every
\* Reading offered to the control plane has an integer device_id.
C11_ParseErrorReported ==
    /\ (/\ lastDone.enqueued
        /\ connected
        /\ ~IsDecimal(Split(lastDone.topic)[3]))
       => /\ lastDone.calls = <<>>
          /\ lastDone.diags =
                <<DiagOf(lastDone.topic, "device_id_parse_error")>>
    /\ (bwPc = "flush" /\ call.op = "CreateReading")
       => call.arg.DeviceID \in Int

GatewayNotFound(s) ==
    /\ s.enqueued
    /\ s.calls # <<>>
    /\ s.calls[1].op = "ValidatePi"
    /\ s.calls[1].result = "ok"
    /\ ~s.calls[1].exists

Accepted(c, op) == c.op = op /\ c.result = "ok" /\ c.exists

StepOrder == <<"ValidatePi", "ValidateDevice", "CreateReading">>

\* C13: for each Telemetry of a flush the steps run in the order parse,
\* validate_gateway, validate_device, insert_reading; insert_reading is
\* called only after both validations of the same Telemetry returned
\* exists = true, and an error or not-found ends the item.
C13_StepsInOrder ==
    /\ (bwPc = "flush" /\ call.pc # "idle")
       => /\ IsDecimal(batch[flushIdx].DeviceID)
          /\ call.op = StepOrder[Len(item.calls) + 1]
          /\ \A k \in 1..Len(item.calls) :
                Accepted(item.calls[k], StepOrder[k])
    /\ lastDone.enqueued
       => /\ Len(lastDone.calls) <= 3
          /\ ~IsDecimal(Split(lastDone.topic)[3]) => lastDone.calls = <<>>
          /\ \A k \in 1..Len(lastDone.calls) :
                /\ lastDone.calls[k].op = StepOrder[k]
                /\ k < Len(lastDone.calls)
                      => Accepted(lastDone.calls[k], StepOrder[k])

\* insert_reading is under way after both validations
C13_Witness ==
    /\ bwPc = "flush"
    /\ call.op = "CreateReading"
    /\ call.pc = "inflight"
    /\ Len(item.calls) = 2

CodeErrorTypes ==
    {"invalid_topic", "pi_validation_error", "pi_not_found",
     "device_validation_error", "device_not_found", "create_reading_error"}

SpecErrorKinds ==
    {"invalid_topic", "device_id_parse_error", "gateway_validation_error",
     "gateway_not_found", "device_validation_error", "device_not_found",
     "insert_failed"}

\* the step at which the handling of a message ended
FailedStep(s) ==
    IF ~s.enqueued THEN "topic"
    ELSE IF s.calls = <<>> THEN "parse"
    ELSE LET c == s.calls[Len(s.calls)]
         IN IF c.op = "ValidatePi"
            THEN IF c.result # "ok" THEN "gateway_error" ELSE "gateway_missing"
            ELSE IF c.op = "ValidateDevice"
            THEN IF c.result # "ok" THEN "device_error" ELSE "device_missing"
            ELSE "insert"

CodeTagOf(step) ==
    CASE step = "topic" -> "invalid_topic"
      [] step = "gateway_error" -> "pi_validation_error"
      [] step = "gateway_missing" -> "pi_not_found"
      [] step = "device_error" -> "device_validation_error"
      [] step = "device_missing" -> "device_not_found"
      [] step = "insert" -> "create_reading_error"
      [] OTHER -> "none"

SpecTagOf(step) ==
    CASE step = "topic" -> "invalid_topic"
      [] step = "parse" -> "device_id_parse_error"
      [] step = "gateway_error" -> "gateway_validation_error"
      [] step = "gateway_missing" -> "gateway_not_found"
      [] step = "device_error" -> "device_validation_error"
      [] step = "device_missing" -> "device_not_found"
      [] OTHER -> "insert_failed"

Inserted(s) ==
    s.enqueued /\ Len(s.calls) = 3 /\ s.calls[3].result = "ok"

\* C15: while the session is connected, a message whose ingestion fails
\* yields exactly one diagnostic on ingestor/errors/<gateway>/<device>, a
\* message that is inserted yields none.
C15_OneDiagnosticPerFailure ==
    (lastDone # NoSummary /\ connected)
    => IF Inserted(lastDone)
       THEN lastDone.diags = <<>>
       ELSE /\ Len(lastDone.diags) = 1
            /\ lastDone.diags[1].topic =
                  ErrorTopic(BestEffort(lastDone.topic, 2),
                             BestEffort(lastDone.topic, 3))

\* C16 (amended): with every request answered by a 5xx status, the first
\* message ends after maxRetries+1 requests with failure_count 4, the
\* second sends the one request that brings failure_count to 5 and is then
\* turned away by the open breaker, and every later message is turned away
\* without a request; each gets one pi_validation_error diagnostic.
C16_OutageOpensBreaker ==
    /\ circuitBreaker.failureCount <= maxFailures
    /\ circuitBreaker.state = "open"
          <=> circuitBreaker.failureCount = maxFailures
    /\ lastDone # NoSummary
       => /\ Len(lastDone.calls) = 1
          /\ lastDone.diags =
                <<DiagOf(lastDone.topic, "pi_validation_error")>>
          /\ LET c == lastDone.calls[1]
             IN \/ /\ c.result = "exhausted"
                   /\ c.reqs = maxRetries + 1
                   /\ circuitBreaker.failureCount = maxRetries + 1
                \/ /\ c.result = "breaker_open"
                   /\ c.reqs \in {0, maxFailures - (maxRetries + 1)}
                   /\ circuitBreaker.failureCount = maxFailures

\* a message was turned away without a request
C16_Witness ==
    /\ lastDone # NoSummary
    /\ lastDone.calls[1].result = "breaker_open"
    /\ lastDone.calls[1].reqs = 0
    /\ circuitBreaker.failureCount = maxFailures

\* C16 as stated: each of the first five messages adds one failure and
\* ends with a gateway_validation_error or insert_failed diagnostic; the
\* breaker turns away the sixth message, not an earlier one.
C16_FiveMessagesOpenBreaker ==
    /\ circuitBreaker.failureCount <= msgCount
    /\ (lastDone # NoSummary /\ msgCount <= maxFailures)
       => /\ lastDone.calls[1].result # "breaker_open"
          /\ Len(lastDone.diags) = 1
          /\ lastDone.diags[1].error_type
                \in {"gateway_validation_error", "insert_failed"}

\* C17: an item that fails does not end the flush: the batch stays as it
\* is and the flush moves to the next item; the flush ends only behind the
\* last item, and the batch writer exits only on cancellation or a closed
\* queue.
C17_FailureKeepsBatch ==
    [][/\ (bwPc = "flush" /\ lastDone' # NoSummary /\ lastDone'.enqueued)
          => /\ flushIdx' = flushIdx + 1
             /\ batch' = batch
             /\ bwPc' = "flush"
             /\ ~panicked'
       /\ (bwPc = "flush" /\ bwPc' # "flush")
          => /\ flushIdx = Len(batch) + 1
             /\ bwPc' = "exited" => (ctxDone \/ chClosed)]_vars

\* the first item of a batch of two failed, the second is next
C17_Witness ==
    /\ bwPc = "flush"
    /\ Len(batch) = 2
    /\ flushIdx = 2
    /\ lastDone.enqueued
    /\ lastDone.diags # <<>>

\* C18: the batch never holds more than batch_size Telemetry; the append
\* that fills it starts a flush at once, and that flush leaves the batch
\* empty and the timer reset to the batch window before the next receive.
C18_BatchBounded ==
    [][/\ Len(batch') <= cfgBatchSize
       /\ bwPc' = "select" => Len(batch') < cfgBatchSize
       /\ (Len(batch') > Len(batch) /\ Len(batch') = cfgBatchSize)
          => (bwPc' = "flush" /\ flushFrom' = "size" /\ flushIdx' = 1)
       /\ (bwPc = "flush" /\ flushFrom = "size" /\ bwPc' # "flush")
          => /\ batch' = <<>>
             /\ bwPc' = "select"
             /\ timerActive' /\ ~timerC'
             /\ timerDeadline' = now + BatchWindow]_vars

\* back in the select after a flush that a full batch started
C18_Witness ==
    /\ bwPc = "select"
    /\ flushFrom = "size"
    /\ batch = <<>>
    /\ timerActive
    /\ timerDeadline = now + BatchWindow
    /\ now > 0

\* ------------------------------------------------------------------------
\* Properties of the batch window and of shutdown
\* ------------------------------------------------------------------------
\* the Telemetry that arrived and that no flush has taken up yet
Pending ==
    {msgCh[k] : k \in 1..Len(msgCh)}
        \cup {blocked[k] : k \in 1..Len(blocked)}
        \cup (IF bwPc = "select"
              THEN {batch[k] : k \in 1..Len(batch)}
              ELSE {})

\* C19 (amended): every Telemetry in the batch is taken up by the flush of
\* the next timer firing, that flush empties the batch, and a timer that
\* is set fires within batch_window of its reset.
C19_TimerFlushesBatch ==
    [][/\ (bwPc' = "select" /\ batch' # <<>>)
          => \/ timerC'
             \/ /\ timerActive'
                /\ now' <= timerDeadline'
                /\ timerDeadline' <= now' + BatchWindow
       /\ (timerActive' /\ (~timerActive \/ timerDeadline' # timerDeadline))
          => timerDeadline' = now + BatchWindow
       /\ (bwPc = "select" /\ timerC /\ ~timerC')
          => /\ bwPc' = "flush"
             /\ flushFrom' = "timer"
             /\ flushIdx' = 1
             /\ batch' = batch
       /\ (bwPc = "flush" /\ flushFrom = "timer" /\ bwPc' # "flush")
          => /\ batch' = <<>>
             /\ bwPc' = "select"
             /\ timerActive'
             /\ timerDeadline' = now + BatchWindow]_vars

\* the timer started a flush of all N = 2 messages, N < batch_size
C19_Witness ==
    /\ bwPc = "flush"
    /\ flushFrom = "timer"
    /\ Len(batch) = MaxWindowMsgs
    /\ Len(batch) < cfgBatchSize

\* C19 as stated: with N < batch_size messages, the message that arrived
\* last is taken up by a flush at most batch_window after its arrival.
C19_FlushedWithinWindow ==
    \A rd \in Pending :
       (rd.id = msgCount /\ msgCount < cfgBatchSize)
       => now - rd.ReceivedAt <= BatchWindow

\* C20: after stop() the queue is closed once and nothing panics; stop()
\* returns only when the batch writer has exited, which, unless the
\* context was cancelled, has drained the queue and flushed the batch.
C20_GracefulStop ==
    /\ stopPc # "none" => ~panicked
    /\ stopPc = "returned"
       => /\ bwPc \in {"exited", "notStarted"}
          /\ ~ctxDone => (msgCh = <<>> /\ batch = <<>> /\ blocked = <<>>)

\* ------------------------------------------------------------------------
\* Properties of cancellation and of the shutdown sequence
\* ------------------------------------------------------------------------
\* C21: when the batch writer has exited on the cancellation signal, the
\* broker session is disconnected and no Telemetry is left in the intake
\* queue.
C21_CancelDrainsQueue ==
    (bwPc = "exited" /\ flushFrom = "ctx")
    => (~connected /\ msgCh = <<>>)

\* number of messages the broker delivers in a run of SpecCancel
MaxCancelMsgs == 2

\* the service, delivered MaxCancelMsgs well-formed messages, whose context
\* is cancelled while a flush works on the first of at least two items
NextCancel ==
    \/ Start("ok")
    \/ msgCount < MaxCancelMsgs /\ onMessage(GoodTopic, "{\"v\":1}")
    \/ BwCtxDone
    \/ BwReceive
    \/ BwTimer
    \/ TimerFire
    \/ FlushItem
    \/ FlushReturn
    \/ FlushDone
    \/ Attempt
    \/ \E r \in ServiceResponses : Response(r)
    \/ BackoffElapsed
    \/ BackoffCancelled
    \/ Quiescent /\ Tick(1, MaxRunTime)
    \/ bwPc = "flush" /\ flushIdx = 1 /\ Len(batch) >= 2 /\ Cancel

SpecCancel == Init /\ [][NextCancel]_vars

\* C22: once the signal was cancelled during a flush, no validate or insert
\* call is made and no diagnostic is published for the items behind the one
\* in work: the flush runs to its end without them.
C22_CancelAbortsFlush ==
    /\ (ctxDone /\ bwPc = "flush" /\ flushIdx >= 2) => call.pc = "idle"
    /\ (ctxDone /\ bwPc = "flush" /\ flushIdx >= 3) => lastDone.diags = <<>>

\* C23: the signal that starts the graceful stop has cancelled the context
\* given to Start; the stop disconnects the session before it closes the
\* queue, and it is over only when the batch writer and the health server
\* have ended.
C23_SignalCancelsThenStops ==
    /\ stopPc # "none" => ctxDone
    /\ chClosed => ~connected
    /\ stopPc = "returned" => (bwPc = "exited" /\ ~HealthListening)

\* ------------------------------------------------------------------------
\* Properties of the health endpoint (specification SpecMain)
\* ------------------------------------------------------------------------
\* C26: GET /health answers healthy with code 200 exactly when the session
\* is connected and the liveness probe came back with 200, unhealthy with
\* code 503 otherwise, and it reports the state and the failure count the
\* breaker has at that moment.
C26_HealthReport ==
    [][health' # health
       => /\ IF IsConnected /\ health'.probe = 200
             THEN health'.status = "healthy" /\ health'.code = 200
             ELSE health'.status = "unhealthy" /\ health'.code = 503
          /\ health'.state = circuitBreaker.state
          /\ health'.failure_count = circuitBreaker.failureCount]_vars

\* healthy is reported while the breaker has counted failures
C26_Witness ==
    /\ health.status = "healthy"
    /\ health.code = 200
    /\ health.failure_count > 0
    /\ health.failure_count = circuitBreaker.failureCount
    /\ connected

\* ------------------------------------------------------------------------
\* Properties of the order of one device's Telemetry (specification
\* SpecOrder)
\* ------------------------------------------------------------------------
\* the Telemetry the batch writer has received and not yet flushed,
\* followed by those it will receive next
ArrivalOrder == batch \o msgCh

\* C24: the Telemetry of one device reach the batch writer, and with it
\* insert_reading, in the order in which the broker delivered them.
C24_DeliveryOrderKept ==
    \A j, k \in 1..Len(ArrivalOrder) :
       (j < k /\ ArrivalOrder[j].Topic = ArrivalOrder[k].Topic)
       => ArrivalOrder[j].id < ArrivalOrder[k].id

\* ------------------------------------------------------------------------
\* Properties of the error publisher
\* ------------------------------------------------------------------------
\* publishError was called for the message: every failure but that of the
\* device id, which is logged only
PublishErrorCalled(s) ==
    s # NoSummary /\ ~Inserted(s) /\ FailedStep(s) # "parse"

\* C25: a diagnostic goes to ingestor/errors/<gateway_id>/<device_id_raw>
\* at QoS 1, not retained, while the session is connected; while it is not
\* connected the diagnostic is dropped, and a reconnect publishes nothing.
C25_DroppedWhenDisconnected ==
    [][/\ \A k \in 1..Len(lastDone'.diags) :
             /\ lastDone'.diags[k].topic =
                   ErrorTopic(BestEffort(lastDone'.topic, 2),
                              BestEffort(lastDone'.topic, 3))
             /\ lastDone'.diags[k].qos = 1
             /\ ~lastDone'.diags[k].retained
       /\ PublishErrorCalled(lastDone')
          => Len(lastDone'.diags) = (IF connected THEN 1 ELSE 0)
       /\ (~connected /\ connected') => lastDone'.diags = <<>>]_vars

\* a control-plane call failed while the session was down: no diagnostic
C25_Witness ==
    /\ PublishErrorCalled(lastDone)
    /\ lastDone.calls # <<>>
    /\ ~connected
    /\ mqttClient = "set"
    /\ lastDone.diags = <<>>

\* ------------------------------------------------------------------------
\* Properties of the three operations of the client (specification
\* SpecClient)
\* ------------------------------------------------------------------------
Validations == {"ValidatePi", "ValidateDevice"}

\* the response is one of status 2xx
Is2xx(r) == r.status >= 200 /\ r.status <= 299

\* C27 (amended): a validation returns the exists flag of a response with
\* status 200 whose body decodes and carries no error text, as it is, and
\* an error, never exists = true, for every other outcome; an insert fails
\* on every response outside 2xx, every transport error and every body
\* that does not decode.
C27_ExistsVerbatim ==
    /\ (call.op \in Validations /\ lastResp # NoResp)
       => IF lastResp.status = 200 /\ lastResp.decodes /\ ~lastResp.error
          THEN /\ call.pc = "returned"
               /\ call.result = "ok"
               /\ call.exists = lastResp.flag
          ELSE call.result # "ok" /\ ~call.exists
    /\ (call.op \in Validations /\ call.result # "ok") => ~call.exists
    /\ (/\ call.op = "CreateReading"
        /\ lastResp # NoResp
        /\ (~Is2xx(lastResp) \/ ~lastResp.decodes))
       => call.result # "ok"

\* a validation returned exists = false as the 200 response said
C27_Witness ==
    /\ call.op \in Validations
    /\ call.pc = "returned"
    /\ call.result = "ok"
    /\ ~call.exists
    /\ lastResp = Resp(StatusOK, TRUE, FALSE, FALSE)

\* C27 as stated: a validation returns the exists flag of every response
\* with status 200 as it is.
C27_EveryOkResponse ==
    (call.op \in Validations /\ lastResp.status = 200 /\ lastResp.decodes)
    => (call.result = "ok" /\ call.exists = lastResp.flag)

\* ------------------------------------------------------------------------
\* Properties of the payload
\* ------------------------------------------------------------------------
\* what kind of JSON text a body is
JSONKind(b) ==
    CASE b = "{\"v\":1}" -> "object"
      [] b = "{}" -> "object"
      [] b = "null" -> "null"
      [] b = "[1]" -> "array"
      [] OTHER -> "invalid"

\* the payload the specification gives a body
PayloadOf(b) ==
    IF JSONKind(b) = "object" THEN jsonUnmarshal(b).payload
    ELSE Map({<<"raw", b>>})

\* C28: the payload of a Telemetry, and the payload offered to
\* insert_reading, is the decoded body when the body is a JSON object and
\* the map {"raw": <body>} for every other body; a message with a topic of
\* four segments is enqueued whatever its body.
C28_RawOnDecodeFailure ==
    [][/\ \A k \in 1..Len(msgCh') :
             msgCh'[k].Payload = PayloadOf(msgCh'[k].body)
       /\ (bwPc' = "flush" /\ call'.op = "CreateReading")
          => call'.arg.Payload = PayloadOf(batch'[flushIdx'].body)
       /\ \A m \in Messages :
             (/\ msgCount' = msgCount + 1
              /\ Len(Split(m.topic)) >= 4
              /\ ~chClosed
              /\ Len(msgCh) < MsgChCap
              /\ <<onMessage(m.topic, m.body)>>_vars)
             => /\ Len(msgCh') = Len(msgCh) + 1
                /\ msgCh'[Len(msgCh')].body = m.body]_vars

\* ------------------------------------------------------------------------
\* Properties of the service authentication (specification SpecAuth)
\* ------------------------------------------------------------------------
\* C29: every request of the client carries "Bearer " followed by its
\* secret; a handler of /internal runs only for a request whose bearer
\* token is the configured, non-empty secret of the API service; every
\* other request gets 401, or 500 when no secret is configured, and leaves
\* the stored readings as they are.
C29_BearerSecretGuards ==
    [][controlPlane' # controlPlane
       => LET x == controlPlane'.last
              secret == controlPlane.expectedSecret
          IN /\ x.from = "client" => x.header = Bearer \o apiSecret
             /\ x.handled <=> (secret # <<>> /\ x.header = Bearer \o secret)
             /\ ~x.handled
                => /\ \/ x.status = 401
                      \/ x.status = 500 /\ secret = <<>>
                   /\ controlPlane'.readings = controlPlane.readings]_vars

\* a reading of the client was stored, then a request with another token
\* was turned away
C29_Witness ==
    /\ controlPlane.readings # <<>>
    /\ apiSecret = controlPlane.expectedSecret
    /\ ~controlPlane.last.handled
    /\ controlPlane.last.status = 401
    /\ HasPrefix(controlPlane.last.header, Bearer)
    /\ TrimPrefix(controlPlane.last.header, Bearer) # <<>>

\* ------------------------------------------------------------------------
\* Properties of the closing of the intake queue
\* ------------------------------------------------------------------------
\* C30: whatever the interleaving of Stop with the callbacks, no send on
\* the closed queue and no second close of it happens.
C30_NoClosePanic == ~panicked

\* ------------------------------------------------------------------------
\* Properties of the way of a Telemetry through the batch writer
\* ------------------------------------------------------------------------
IdsOf(s) == {s[k].id : k \in 1..Len(s)}

\* C31: a Telemetry that leaves the intake queue is appended to the batch,
\* once; a flush starts at the first item of the batch and takes the items
\* one by one, each of them once, and the batch is emptied only behind the
\* last item, all of it at once: no Telemetry is lost between dequeue and
\* flush and none is flushed twice.
C31_FlushedExactlyOnce ==
    [][/\ \A k \in 1..Len(msgCh) :
             msgCh[k].id \notin IdsOf(msgCh')
             => (k = 1 /\ batch' = Append(batch, msgCh[k]))
       /\ batch' # batch
          => \/ /\ bwPc = "select"
                /\ msgCh # <<>>
                /\ batch' = Append(batch, Head(msgCh))
                /\ Head(msgCh).id \notin IdsOf(msgCh') \cup IdsOf(blocked')
             \/ /\ bwPc = "flush"
                /\ flushIdx = Len(batch) + 1
                /\ batch' = <<>>
       /\ (bwPc # "flush" /\ bwPc' = "flush") => flushIdx' = 1
       /\ (bwPc = "flush" /\ flushIdx' # flushIdx)
          => IF flushIdx <= Len(batch)
             THEN /\ flushIdx' = flushIdx + 1
                  /\ lastDone'.enqueued
                  /\ lastDone'.topic = batch[flushIdx].Topic
                  /\ lastDone'.body = batch[flushIdx].body
             ELSE bwPc' # "flush" /\ batch' = <<>>
       /\ (lastDone' # NoSummary /\ lastDone'.enqueued)
          => (bwPc = "flush" /\ flushIdx' = flushIdx + 1)
       /\ Cardinality(IdsOf(batch' \o msgCh' \o blocked'))
             = Len(batch') + Len(msgCh') + Len(blocked')]_vars

\* the flush that the closed queue started has taken the last item of a
\* batch that was not full
C31_Witness ==
    /\ bwPc = "flush"
    /\ flushFrom = "closed"
    /\ batch # <<>>
    /\ flushIdx = Len(batch) + 1
    /\ lastDone.enqueued
    /\ lastDone.calls # <<>>

\* ------------------------------------------------------------------------
\* Properties of the stored readings (specification SpecStore)
\* ------------------------------------------------------------------------
\* the rows of table readings that hold the Telemetry of gateway g and
\* device d received at time t
RowsOf(g, d, t) ==
    {k \in 1..Len(controlPlane.readings) :
        /\ controlPlane.readings[k].pi_id = g
        /\ controlPlane.readings[k].device_id = d
        /\ controlPlane.readings[k].ts = t}

\* C32: however often insert_reading is retried, and also when a request
\* was applied and its answer was lost, table readings holds at most one
\* row per Telemetry, and no more rows than Telemetry were delivered.
C32_NoDuplicateReading ==
    /\ \A k \in 1..Len(controlPlane.readings) :
          LET row == controlPlane.readings[k]
          IN Cardinality(RowsOf(row.pi_id, row.device_id, row.ts)) = 1
    /\ (bwPc = "flush" /\ call.op = "CreateReading")
       => Cardinality(RowsOf(call.arg.PiID, call.arg.DeviceID, call.arg.Ts))
             <= 1
    /\ Len(controlPlane.readings) <= msgCount

\* the one Telemetry delivered was stored, the answer was lost, and the
\* retry was applied and answered
C32_Witness ==
    /\ msgCount = 1
    /\ bwPc = "flush"
    /\ call.op = "CreateReading"
    /\ call.result = "ok"
    /\ call.reqs >= 2
    /\ Len(controlPlane.readings) = 1
    /\ controlPlane.readings[1].rewritten

\* ------------------------------------------------------------------------
\* Properties of the outcome of insert_reading
\* ------------------------------------------------------------------------
\* C33: CreateReading returns without an error, and flush publishes no
\* diagnostic for the item, only when the response had a 2xx status and
\* said success = true; a 2xx response with success = false is a failure
\* with or without an error text.
C33_SuccessNeedsFlag ==
    /\ (call.op = "CreateReading" /\ call.result = "ok")
       => (Is2xx(lastResp) /\ lastResp.decodes /\ lastResp.flag)
    /\ Inserted(lastDone) => lastDone.diags = <<>>

\* ------------------------------------------------------------------------
\* Properties of a call during which the breaker opens (specification
\* SpecPrompt)
\* ------------------------------------------------------------------------
\* the breaker opened on a request of the call in progress
OpenedInCall ==
    /\ call.reqs >= 1
    /\ circuitBreaker.state = "open"
    /\ circuitBreaker.failureCount = maxFailures

\* C34 (amended): once the breaker is open after a failed attempt of a
\* call, that call sends no further request and adds no further failure:
\* the attempt that follows the backoff wait is rejected and the call
\* returns the breaker-open error, unless the wait is cancelled, and a call
\* whose last attempt opened the breaker returns the error of the exhausted
\* retries. A call sends at most maxRetries+1 requests, each adding at most
\* one failure, and no request leaves while the breaker is open and
\* reset_timeout has not passed.
C34_OpenBreakerEndsCall ==
    [][/\ (/\ call.pc \in {"wait", "check"}
           /\ call.reqs >= 1
           /\ circuitBreaker.state = "open"
           /\ call' # call)
          => /\ call'.pc # "inflight"
             /\ call'.reqs = call.reqs
             /\ circuitBreaker' = circuitBreaker
             /\ call'.pc = "returned"
                   => call'.result \in {"breaker_open", "cancelled"}
             /\ (call.pc = "check") => call'.result = "breaker_open"
       /\ (/\ call.pc = "inflight"
           /\ call'.pc = "returned"
           /\ circuitBreaker'.state = "open")
          => (call'.result = "exhausted" /\ call.attempt = maxRetries)
       /\ (call.pc = "check" /\ call'.pc = "inflight")
          => \/ circuitBreaker.state # "open"
             \/ now - circuitBreaker.lastFailTime > resetTimeout
       /\ call'.reqs <= maxRetries + 1
       /\ circuitBreaker'.failureCount > circuitBreaker.failureCount
          => /\ call'.reqs = call.reqs
             /\ call.pc = "inflight"
             /\ circuitBreaker'.failureCount
                   = circuitBreaker.failureCount + 1]_vars

\* the first request of a call opened the breaker, and the attempt behind
\* the backoff wait was rejected
C34_Witness ==
    /\ OpenedInCall
    /\ call.pc = "returned"
    /\ call.result = "breaker_open"
    /\ call.attempt = 1
    /\ call.delays = <<retryDelay>>
    /\ now = circuitBreaker.lastFailTime + retryDelay
    /\ ~ctxDone

\* C34 as stated: a call during which the breaker opened returns the
\* breaker-open error.
C34_ReturnsBreakerOpen ==
    (OpenedInCall /\ call.pc = "returned") => call.result = "breaker_open"

\* ------------------------------------------------------------------------
\* Properties of the state of the breaker (specification SpecClient)
\* ------------------------------------------------------------------------
\* C35: a closed breaker has counted fewer than max_failures failures, an
\* open breaker at least max_failures, and the count is never negative.
C35_StateMatchesCount ==
    /\ circuitBreaker.state = "closed"
          => circuitBreaker.failureCount < maxFailures
    /\ circuitBreaker.state = "open"
          => circuitBreaker.failureCount >= maxFailures
    /\ circuitBreaker.failureCount >= 0

\* the probe of an open breaker failed: the breaker stays open with one
\* failure more than max_failures
C35_Witness ==
    /\ circuitBreaker.state = "open"
    /\ circuitBreaker.failureCount = maxFailures + 1
    /\ call.pc = "wait"
    /\ call.reqs = 1

\* the answer of the API service for a gateway or device it does not know
NotFoundResponse == Resp(StatusOK, TRUE, FALSE, FALSE)

\* C36: a validation answered 200 with exists = false returns exists =
\* false without an error and is a success for the breaker: failure_count
\* becomes 0 and the state closed.
C36_NotFoundIsSuccess ==
    [][(/\ call.op \in Validations
        /\ call.pc = "inflight"
        /\ call'.pc # "inflight"
        /\ lastResp' = NotFoundResponse)
       => /\ call'.pc = "returned"
          /\ call'.result = "ok"
          /\ ~call'.exists
          /\ circuitBreaker'.failureCount = 0
          /\ circuitBreaker'.state = "closed"
          /\ circuitBreaker'.lastFailTime = circuitBreaker.lastFailTime]_vars

\* three attempts failed, the fourth was answered not-found: the count is
\* back at 0
C36_Witness ==
    /\ call.op \in Validations
    /\ call.result = "ok"
    /\ ~call.exists
    /\ lastResp = NotFoundResponse
    /\ call.reqs = maxRetries + 1
    /\ circuitBreaker.failureCount = 0
    /\ circuitBreaker.state = "closed"
    /\ lastFailureAt >= 0

\* ------------------------------------------------------------------------
\* Properties of the liveness probe (specification SpecProbe)
\* ------------------------------------------------------------------------
\* C37: GET /health/live is sent and its outcome reported whatever the
\* state of the breaker, and neither the probe nor the snapshot of the
\* breaker changes state, failure_count or last_failure_at.
C37_ProbeOutsideBreaker ==
    [][health' # health
       => /\ circuitBreaker' = circuitBreaker
          /\ call' = call
          /\ health'.api_service =
                (IF health'.probe = StatusOK THEN "connected"
                 ELSE "disconnected")
          /\ health'.state = circuitBreaker.state
          /\ health'.failure_count = circuitBreaker.failureCount]_vars

\* the probe was answered 200 while the breaker was open and rejecting
C37_Witness ==
    /\ health.probe = StatusOK
    /\ health.api_service = "connected"
    /\ health.state = "open"
    /\ circuitBreaker.state = "open"
    /\ ~canExecute(circuitBreaker, now)

\* ------------------------------------------------------------------------
\* Properties of the batch timer (specification SpecTimer)
\* ------------------------------------------------------------------------
\* C38: the batch writer never waits for a value of timer.C that will not
\* come; a flush that the full batch or the timer started ends with the
\* timer armed for one batch window and timer.C empty; and a timer armed
\* far enough from the end of the run is followed by a flush that the timer
\* starts.
C38_TimerNeverBlocks ==
    /\ [](bwPc # "drainTimer")
    /\ [][(/\ bwPc = "flush"
            /\ flushFrom \in {"size", "timer"}
            /\ bwPc' # "flush")
           => /\ bwPc' = "select"
              /\ timerActive'
              /\ ~timerC'
              /\ timerDeadline' = now + BatchWindow]_vars
    /\ [](bwPc = "select" => (timerActive \/ timerC))
    /\ (/\ bwPc = "select"
        /\ timerActive
        /\ timerDeadline + BatchWindow <= MaxRunTime)
       ~> (bwPc = "flush" /\ flushFrom = "timer")

\* the flush of a full batch is at its end and the timer has fired in the
\* meantime: a value waits in timer.C for the drain
C38_Witness ==
    /\ bwPc = "flush"
    /\ flushFrom = "size"
    /\ flushIdx = Len(batch) + 1
    /\ call.pc = "idle"
    /\ ~timerActive
    /\ timerC

\* ------------------------------------------------------------------------
\* Properties of the end of Stop (specification SpecStop)
\* ------------------------------------------------------------------------
\* C39: after Stop was called with no callback suspended at its send, the
\* batch writer, if it was started, sees the closed queue, ends its last
\* flush and exits, and Stop returns; so it is after a cancellation that
\* made the batch writer exit before, and after a Start that returned an
\* error.
C39_StopReturns ==
    (stopPc = "waiting" /\ blocked = <<>>)
       ~> (stopPc = "returned" /\ bwPc \in {"exited", "notStarted"})

\* Stop returns in every run in which the close of the queue meets no
\* callback at its send
StopReturnsUnlessPanic ==
    (stopPc = "waiting") ~> (stopPc = "returned" \/ panicked)

====
